---- MODULE Spec2Model ----
(***************************************************************************)
(* Model of the rule engine of src/regime_classifier.py with the tables of *)
(* src/config.py.                                                          *)
(*                                                                         *)
(* Numbers.  The Python code compares floats; only their order matters to  *)
(* the rules, so every metric is an integer in a fixed unit:               *)
(*   avg_funding                 thousandths        (0.10  is 100)         *)
(*   oi_growth_pct_7d            percent            (25    is 25)          *)
(*   total_liquidations_7d       US dollars         (50_000_000)           *)
(*   deviation_from_30d_pct      percent            (-30   is -30)         *)
(*   pct_elevated_funding        percent                                   *)
(*   max_consecutive_high        periods                                   *)
(*   utilization_ratio           thousandths        (0.90  is 900)         *)
(*   avg_health_factor           hundredths         (1.3   is 130)         *)
(*   risk multipliers, position-size adjustments, leverage limits: tenths  *)
(*                                                  (0.8 is 8, -0.4 is -4) *)
(*                                                                         *)
(* Python values.  A dict is a function whose DOMAIN is the set of keys    *)
(* that are present.  A value is Num(n) or None; both are records of one   *)
(* shape so that any two values can be compared.                           *)
(*                                                                         *)
(* Outcomes.  A call either returns, Return(v), or raises, Raise(e).       *)
(***************************************************************************)
EXTENDS Integers, Sequences, FiniteSets, TLC

VARIABLES
    call, pc, result,  \* one caller of the classification functions
    other,             \* a second caller of the same functions
    now,               \* the clock, in seconds (time.time, datetime.utcnow)
    table,             \* the rows of himari_strategy_params, oldest first
    history,           \* the rows of dune_regime_history, oldest first
    loader,            \* a StrategyParameterLoader
    got,               \* the latest return of one of the loader's getters
    slack,             \* the alerts delivered to the Slack webhook
    proposal,          \* a call of propose_parameter_change
    applied,           \* the invocations of its apply_callback
    job,               \* a run of the batch job, or a call of one of its functions
    execution,         \* a call of execute_query of DuneClient or AlliumClient
    monitor            \* a RealtimeMonitor and its polling loops

callerVars == <<call, pc, result>>

loaderVars == <<loader, got>>

dbVars == <<table, history>>

alertVars == <<proposal, applied>>

clientVars == <<execution, monitor>>

vars ==
    <<callerVars, other, now, dbVars, loaderVars, slack, alertVars, job,
      clientVars>>

----------------------------------------------------------------------------
(* Bounds of the input grids. *)

\* every threshold t of a rule contributes t-Radius .. t+Radius to the grid
Radius == 1

\* longest list of rows given to check_protocol_health
MaxRows == 2

----------------------------------------------------------------------------
(* Python values and outcomes. *)

Num(n) == [tag |-> "num", val |-> n]

None == [tag |-> "None", val |-> 0]

IsNone(v) == v.tag = "None"

IsNum(v) == v.tag = "num"

Return(v) == [exc |-> "none", ret |-> v]

Raise(e) == [exc |-> e, ret |-> None]

Raised(r) == r.exc # "none"

\* dict.get(key, default): the value stored under the key when the key is
\* present (also when that value is None), the default otherwise
GetAlwaysDefault(d, key, default) == default

Get(d, key, default) == IF key \in DOMAIN d THEN d[key] ELSE default

\* float(v): a number converts to itself, float(None) raises TypeError
ToFloat(v) == IF IsNum(v) THEN Return(v.val) ELSE Raise("TypeError")

\* v < c and v > c for a number c: ordering None against a number raises
\* TypeError in Python 3
Less(v, c) == IF IsNum(v) THEN Return(v.val < c) ELSE Raise("TypeError")

Greater(v, c) == IF IsNum(v) THEN Return(v.val > c) ELSE Raise("TypeError")

\* truthiness of a value: None and 0 are false
Truthy(v) == IsNum(v) /\ v.val # 0

Around(t) == (t - Radius)..(t + Radius)

NumsOf(S) == {Num(n) : n \in S}

----------------------------------------------------------------------------
(* src/config.py *)

REGIME_RISK_MULTIPLIERS ==
    [STABLE |-> 10, RECOVERY |-> 12, TRANSITIONAL |-> 8,
     FRAGILE |-> 5, STRESS |-> 3, UNKNOWN |-> 8]

REGIME_THRESHOLDS_slip ==
    [fragile  |-> [oi_growth_min |-> 25, funding_avg_min |-> 100,
                   liquidations_min |-> 50000000],
     stress   |-> [oi_growth_max |-> -15, liquidations_min |-> 100000000],
     recovery |-> [oi_growth_min |-> -15, oi_growth_max |-> 0,
                   funding_avg_min |-> 30, funding_avg_max |-> 80,
                   liquidations_max |-> 20000000],
     stable   |-> [oi_growth_min |-> -10, oi_growth_max |-> 15,
                   funding_avg_min |-> 10, funding_avg_max |-> 600,
                   liquidations_max |-> 30000000]]

REGIME_THRESHOLDS ==
    [fragile  |-> [oi_growth_min |-> 25, funding_avg_min |-> 100,
                   liquidations_min |-> 50000000],
     stress   |-> [oi_growth_max |-> -15, liquidations_min |-> 100000000],
     recovery |-> [oi_growth_min |-> -15, oi_growth_max |-> 0,
                   funding_avg_min |-> 30, funding_avg_max |-> 80,
                   liquidations_max |-> 20000000],
     stable   |-> [oi_growth_min |-> -10, oi_growth_max |-> 15,
                   funding_avg_min |-> 10, funding_avg_max |-> 60,
                   liquidations_max |-> 30000000]]

LIQUIDITY_THRESHOLDS ==
    [CRITICAL |-> -30, POOR |-> -15, BELOW_AVERAGE |-> -5, EXCELLENT |-> 20]

\* the 'note' texts are left out: no rule reads them
LEVERAGE_CYCLE_ACTIONS ==
    [EARLY_CYCLE  |-> [leverage_limit |-> 30, position_size_mult |-> 12],
     MID_CYCLE    |-> [leverage_limit |-> 20, position_size_mult |-> 10],
     LATE_CYCLE   |-> [leverage_limit |-> 15, position_size_mult |-> 6],
     TRANSITIONAL |-> [leverage_limit |-> 20, position_size_mult |-> 9]]

\* the parameters served when no usable record exists;
\* max_position_size_btc is in hundredths of a BTC, leverage_limit and
\* risk_budget_multiplier are in tenths
SAFE_DEFAULTS ==
    [regime |-> "UNKNOWN", max_position_size_btc |-> 30,
     leverage_limit |-> 15, risk_budget_multiplier |-> 7,
     liquidity_health |-> "UNKNOWN", protocol_alerts |-> <<>>]

\* percent
AUTO_APPLY_THRESHOLD == 10

STALENESS_HOURS == 24

----------------------------------------------------------------------------
(* classify_market_regime *)

\* the three conjuncts of each rule, one per metric
FragileOi(oi_growth) == oi_growth > REGIME_THRESHOLDS.fragile.oi_growth_min

FragileFunding(avg_funding) ==
    avg_funding > REGIME_THRESHOLDS.fragile.funding_avg_min

FragileLiq(liquidations) ==
    liquidations > REGIME_THRESHOLDS.fragile.liquidations_min

FragileCond(avg_funding, oi_growth, liquidations) ==
    /\ FragileOi(oi_growth)
    /\ FragileFunding(avg_funding)
    /\ FragileLiq(liquidations)

StressCond(avg_funding, oi_growth, liquidations) ==
    /\ oi_growth < REGIME_THRESHOLDS.stress.oi_growth_max
    /\ liquidations > REGIME_THRESHOLDS.stress.liquidations_min

RecoveryCond(avg_funding, oi_growth, liquidations) ==
    /\ REGIME_THRESHOLDS.recovery.oi_growth_min <= oi_growth
    /\ oi_growth <= REGIME_THRESHOLDS.recovery.oi_growth_max
    /\ REGIME_THRESHOLDS.recovery.funding_avg_min <= avg_funding
    /\ avg_funding <= REGIME_THRESHOLDS.recovery.funding_avg_max
    /\ liquidations < REGIME_THRESHOLDS.recovery.liquidations_max

StableOi(oi_growth) ==
    /\ REGIME_THRESHOLDS.stable.oi_growth_min <= oi_growth
    /\ oi_growth <= REGIME_THRESHOLDS.stable.oi_growth_max

StableFunding(avg_funding) ==
    /\ REGIME_THRESHOLDS.stable.funding_avg_min <= avg_funding
    /\ avg_funding <= REGIME_THRESHOLDS.stable.funding_avg_max

StableLiq(liquidations) ==
    liquidations < REGIME_THRESHOLDS.stable.liquidations_max

StableCond(avg_funding, oi_growth, liquidations) ==
    /\ StableOi(oi_growth)
    /\ StableFunding(avg_funding)
    /\ StableLiq(liquidations)

\* the chain of early returns, with STABLE tested before RECOVERY
RegimeOfStableFirst(avg_funding, oi_growth, liquidations) ==
    IF FragileCond(avg_funding, oi_growth, liquidations) THEN "FRAGILE"
    ELSE IF StressCond(avg_funding, oi_growth, liquidations) THEN "STRESS"
    ELSE IF StableCond(avg_funding, oi_growth, liquidations) THEN "STABLE"
    ELSE IF RecoveryCond(avg_funding, oi_growth, liquidations) THEN "RECOVERY"
    ELSE "TRANSITIONAL"

\* the chain of early returns of classify_market_regime
RegimeOf(avg_funding, oi_growth, liquidations) ==
    IF FragileCond(avg_funding, oi_growth, liquidations) THEN "FRAGILE"
    ELSE IF StressCond(avg_funding, oi_growth, liquidations) THEN "STRESS"
    ELSE IF RecoveryCond(avg_funding, oi_growth, liquidations) THEN "RECOVERY"
    ELSE IF StableCond(avg_funding, oi_growth, liquidations) THEN "STABLE"
    ELSE "TRANSITIONAL"

\* the three reads with their defaults, float() applied to each in turn
classify_market_regime_zero_funding(query_results) ==
    LET avg_funding == ToFloat(Get(query_results, "avg_funding", Num(0)))
        oi_growth == ToFloat(Get(query_results, "oi_growth_pct_7d", Num(0)))
        liquidations ==
            ToFloat(Get(query_results, "total_liquidations_7d", Num(0)))
    IN  IF Raised(avg_funding) THEN avg_funding
        ELSE IF Raised(oi_growth) THEN oi_growth
        ELSE IF Raised(liquidations) THEN liquidations
        ELSE Return(RegimeOf(avg_funding.ret, oi_growth.ret, liquidations.ret))

classify_market_regime(query_results) ==
    LET avg_funding == ToFloat(Get(query_results, "avg_funding", Num(50)))
        oi_growth == ToFloat(Get(query_results, "oi_growth_pct_7d", Num(0)))
        liquidations ==
            ToFloat(Get(query_results, "total_liquidations_7d", Num(0)))
    IN  IF Raised(avg_funding) THEN avg_funding
        ELSE IF Raised(oi_growth) THEN oi_growth
        ELSE IF Raised(liquidations) THEN liquidations
        ELSE Return(RegimeOf(avg_funding.ret, oi_growth.ret, liquidations.ret))

----------------------------------------------------------------------------
(* assess_liquidity_health *)

\* the test that sends the call to the UNKNOWN answer
TvlMissingFalsy(tvl_today, tvl_30d_avg) ==
    ~Truthy(tvl_today) \/ ~Truthy(tvl_30d_avg)

TvlMissing(tvl_today, tvl_30d_avg) == IsNone(tvl_today) \/ IsNone(tvl_30d_avg)

\* the if/elif chain over a numeric deviation_pct
LiquidityBucketInclusive(deviation_pct) ==
    IF deviation_pct <= LIQUIDITY_THRESHOLDS.CRITICAL
    THEN [health |-> "CRITICAL", adjustment |-> -4]
    ELSE IF deviation_pct <= LIQUIDITY_THRESHOLDS.POOR
    THEN [health |-> "POOR", adjustment |-> -2]
    ELSE IF deviation_pct <= LIQUIDITY_THRESHOLDS.BELOW_AVERAGE
    THEN [health |-> "BELOW_AVERAGE", adjustment |-> -1]
    ELSE IF deviation_pct >= LIQUIDITY_THRESHOLDS.EXCELLENT
    THEN [health |-> "EXCELLENT", adjustment |-> 1]
    ELSE [health |-> "NORMAL", adjustment |-> 0]

\* the chain with the EXCELLENT comparison turned round
LiquidityBucketFlipped(deviation_pct) ==
    IF deviation_pct < LIQUIDITY_THRESHOLDS.CRITICAL
    THEN [health |-> "CRITICAL", adjustment |-> -4]
    ELSE IF deviation_pct < LIQUIDITY_THRESHOLDS.POOR
    THEN [health |-> "POOR", adjustment |-> -2]
    ELSE IF deviation_pct < LIQUIDITY_THRESHOLDS.BELOW_AVERAGE
    THEN [health |-> "BELOW_AVERAGE", adjustment |-> -1]
    ELSE IF deviation_pct < LIQUIDITY_THRESHOLDS.EXCELLENT
    THEN [health |-> "EXCELLENT", adjustment |-> 1]
    ELSE [health |-> "NORMAL", adjustment |-> 0]

LiquidityBucket(deviation_pct) ==
    IF deviation_pct < LIQUIDITY_THRESHOLDS.CRITICAL
    THEN [health |-> "CRITICAL", adjustment |-> -4]
    ELSE IF deviation_pct < LIQUIDITY_THRESHOLDS.POOR
    THEN [health |-> "POOR", adjustment |-> -2]
    ELSE IF deviation_pct < LIQUIDITY_THRESHOLDS.BELOW_AVERAGE
    THEN [health |-> "BELOW_AVERAGE", adjustment |-> -1]
    ELSE IF deviation_pct > LIQUIDITY_THRESHOLDS.EXCELLENT
    THEN [health |-> "EXCELLENT", adjustment |-> 1]
    ELSE [health |-> "NORMAL", adjustment |-> 0]

\* the first comparison of the chain raises when deviation_pct is None
assess_liquidity_health(query_results) ==
    LET tvl_today == Get(query_results, "tvl_today", None)
        tvl_30d_avg == Get(query_results, "tvl_30d_avg", None)
        deviation_pct == Get(query_results, "deviation_from_30d_pct", Num(0))
        first == Less(deviation_pct, LIQUIDITY_THRESHOLDS.CRITICAL)
    IN  IF TvlMissing(tvl_today, tvl_30d_avg)
        THEN Return([health |-> "UNKNOWN", adjustment |-> 0,
                     tvl_today |-> None, tvl_30d_avg |-> None,
                     deviation_pct |-> None])
        ELSE IF Raised(first) THEN first
        ELSE Return([health |-> LiquidityBucket(deviation_pct.val).health,
                     tvl_today |-> tvl_today, tvl_30d_avg |-> tvl_30d_avg,
                     deviation_pct |-> deviation_pct,
                     position_size_adjustment |->
                         LiquidityBucket(deviation_pct.val).adjustment])

----------------------------------------------------------------------------
(* classify_leverage_cycle *)

\* 'a > x and b > y': b is compared only when a > x holds
AndGreater(a, x, b, y) ==
    IF Raised(Greater(a, x)) THEN Greater(a, x)
    ELSE IF ~Greater(a, x).ret THEN Return(FALSE)
    ELSE Greater(b, y)

\* the if/elif chain: an outcome holding the phase, or the TypeError of the
\* first comparison that meets None
CyclePhaseMidFirst(pct_elevated, max_consecutive) ==
    LET late == AndGreater(pct_elevated, 70, max_consecutive, 20)
        mid == AndGreater(pct_elevated, 50, max_consecutive, 10)
        early == Less(pct_elevated, 30)
    IN  IF Raised(mid) THEN mid
        ELSE IF mid.ret THEN Return("MID_CYCLE")
        ELSE IF Raised(late) THEN late
        ELSE IF late.ret THEN Return("LATE_CYCLE")
        ELSE IF Raised(early) THEN early
        ELSE IF early.ret THEN Return("EARLY_CYCLE")
        ELSE Return("TRANSITIONAL")

CyclePhase(pct_elevated, max_consecutive) ==
    LET late == AndGreater(pct_elevated, 70, max_consecutive, 20)
        mid == AndGreater(pct_elevated, 50, max_consecutive, 10)
        early == Less(pct_elevated, 30)
    IN  IF Raised(late) THEN late
        ELSE IF late.ret THEN Return("LATE_CYCLE")
        ELSE IF Raised(mid) THEN mid
        ELSE IF mid.ret THEN Return("MID_CYCLE")
        ELSE IF Raised(early) THEN early
        ELSE IF early.ret THEN Return("EARLY_CYCLE")
        ELSE Return("TRANSITIONAL")

classify_leverage_cycle(query_results) ==
    LET pct_elevated == Get(query_results, "pct_elevated_funding", Num(0))
        max_consecutive == Get(query_results, "max_consecutive_high", Num(0))
        phase == CyclePhase(pct_elevated, max_consecutive)
    IN  IF Raised(phase) THEN phase
        ELSE Return([phase |-> phase.ret,
                     leverage_limit |->
                         LEVERAGE_CYCLE_ACTIONS[phase.ret].leverage_limit,
                     position_size_mult |->
                         LEVERAGE_CYCLE_ACTIONS[phase.ret].position_size_mult,
                     pct_elevated_funding |-> pct_elevated,
                     max_consecutive_high |-> max_consecutive])

----------------------------------------------------------------------------
(* check_protocol_health *)

\* the alerts one row appends, in order; an alert string is kept as a record
\* of what it tells: its level, its subject and the row's names and value
\* the two utilization comparisons made inclusive
UtilizationAlertsInclusive(row) ==
    LET protocol == Get(row, "protocol", "UNKNOWN")
        asset == Get(row, "asset", "UNKNOWN")
        utilization == Get(row, "utilization_ratio", Num(0))
    IN  IF Raised(Greater(utilization, 900)) THEN Raise("TypeError")
        ELSE IF utilization.val >= 900
        THEN Return(<<[level |-> "CRITICAL", about |-> "utilization",
                       protocol |-> protocol, asset |-> asset,
                       value |-> utilization.val]>>)
        ELSE IF utilization.val >= 800
        THEN Return(<<[level |-> "WARNING", about |-> "utilization",
                       protocol |-> protocol, asset |-> asset,
                       value |-> utilization.val]>>)
        ELSE Return(<<>>)

UtilizationAlerts(row) ==
    LET protocol == Get(row, "protocol", "UNKNOWN")
        asset == Get(row, "asset", "UNKNOWN")
        utilization == Get(row, "utilization_ratio", Num(0))
    IN  IF Raised(Greater(utilization, 900)) THEN Raise("TypeError")
        ELSE IF utilization.val > 900
        THEN Return(<<[level |-> "CRITICAL", about |-> "utilization",
                       protocol |-> protocol, asset |-> asset,
                       value |-> utilization.val]>>)
        ELSE IF utilization.val > 800
        THEN Return(<<[level |-> "WARNING", about |-> "utilization",
                       protocol |-> protocol, asset |-> asset,
                       value |-> utilization.val]>>)
        ELSE Return(<<>>)

HealthFactorAlerts(row) ==
    LET protocol == Get(row, "protocol", "UNKNOWN")
        asset == Get(row, "asset", "UNKNOWN")
        health_factor == Get(row, "avg_health_factor", None)
    IN  IF Truthy(health_factor) /\ health_factor.val < 130
        THEN <<[level |-> "CRITICAL", about |-> "health factor",
                protocol |-> protocol, asset |-> asset,
                value |-> health_factor.val]>>
        ELSE <<>>

\* the loop putting each row's alerts in front of the earlier ones
RECURSIVE ProtocolLoopPrepend(_, _)
ProtocolLoopPrepend(rows, alerts) ==
    IF rows = <<>> THEN Return(alerts)
    ELSE IF Raised(UtilizationAlerts(Head(rows))) THEN Raise("TypeError")
    ELSE ProtocolLoopPrepend(Tail(rows),
                             UtilizationAlerts(Head(rows)).ret
                                 \o HealthFactorAlerts(Head(rows))
                                 \o alerts)

\* the loop over the rows: the alerts so far, or the TypeError that ended it
RECURSIVE ProtocolLoop(_, _)
ProtocolLoop(rows, alerts) ==
    IF rows = <<>> THEN Return(alerts)
    ELSE IF Raised(UtilizationAlerts(Head(rows))) THEN Raise("TypeError")
    ELSE ProtocolLoop(Tail(rows),
                      alerts \o UtilizationAlerts(Head(rows)).ret
                             \o HealthFactorAlerts(Head(rows)))

check_protocol_health(query_results) == ProtocolLoop(query_results, <<>>)

----------------------------------------------------------------------------
(* get_risk_multiplier *)

\* a lookup that remembers, across callers, the multiplier found last
get_risk_multiplier_memo(regime) ==
    IF other.pc = "returned" /\ other.call.fn = "get_risk_multiplier"
    THEN other.result.ret
    ELSE IF regime \in DOMAIN REGIME_RISK_MULTIPLIERS
    THEN REGIME_RISK_MULTIPLIERS[regime]
    ELSE REGIME_RISK_MULTIPLIERS["UNKNOWN"]

get_risk_multiplier_no_fallback(regime) ==
    IF regime \in DOMAIN REGIME_RISK_MULTIPLIERS
    THEN REGIME_RISK_MULTIPLIERS[regime]
    ELSE 10

get_risk_multiplier(regime) ==
    IF regime \in DOMAIN REGIME_RISK_MULTIPLIERS
    THEN REGIME_RISK_MULTIPLIERS[regime]
    ELSE REGIME_RISK_MULTIPLIERS["UNKNOWN"]

----------------------------------------------------------------------------
(* Inputs. *)

FundingGrid ==
    Around(10) \cup Around(30) \cup Around(60) \cup Around(80)
        \cup Around(100) \cup {40, 50, 70, 120}

OiGrid ==
    Around(-15) \cup Around(-10) \cup Around(0) \cup Around(15)
        \cup Around(25) \cup {-20, -5, 5, 20, 30}

LiqGrid ==
    Around(20000000) \cup Around(30000000) \cup Around(50000000)
        \cup Around(100000000)
        \cup {0, 10000000, 15000000, 40000000, 60000000, 150000000}

\* a key left out of the dict
Absent == [tag |-> "absent", val |-> 0]

\* the dict holding, for each key, the value paired with it, the keys paired
\* with Absent left out
MkDict(pairs) ==
    LET present == {p \in pairs : p[2] # Absent}
    IN  [k \in {p[1] : p \in present} |->
            (CHOOSE p \in present : p[1] = k)[2]]

Optional(S) == NumsOf(S) \cup {None, Absent}

RegimeInputs ==
    {MkDict({<<"avg_funding", f>>, <<"oi_growth_pct_7d", o>>,
             <<"total_liquidations_7d", l>>}) :
        f \in Optional(FundingGrid), o \in Optional(OiGrid),
        l \in Optional(LiqGrid)}

RegimeKeys == {"STABLE", "RECOVERY", "TRANSITIONAL", "FRAGILE", "STRESS",
               "UNKNOWN", "INVALID", "anything-not-in-table", "stable", ""}

\* TVL in millions of dollars
DeviationGrid ==
    Around(-30) \cup Around(-15) \cup Around(-5) \cup Around(20)
        \cup {-35, -20, -2, 0, 30}

LiquidityInputs ==
    {MkDict({<<"tvl_today", t>>, <<"tvl_30d_avg", a>>,
             <<"deviation_from_30d_pct", d>>}) :
        t \in {Absent, None, Num(0), Num(700)},
        a \in {Absent, None, Num(0), Num(1000)},
        d \in Optional(DeviationGrid)}

PctElevatedGrid == Around(30) \cup Around(50) \cup Around(70) \cup {0, 20, 75}

MaxConsecutiveGrid == Around(10) \cup Around(20) \cup {0, 5, 25}

CycleInputs ==
    {MkDict({<<"pct_elevated_funding", p>>, <<"max_consecutive_high", m>>}) :
        p \in Optional(PctElevatedGrid), m \in Optional(MaxConsecutiveGrid)}

UtilizationGrid == Around(800) \cup Around(900)

HealthFactorGrid == Around(130) \cup {0}

\* a row names its protocol and asset, or leaves both out
RowNames == {[k \in {} |-> ""], [protocol |-> "AAVE", asset |-> "WBTC"]}

Rows(utilizations, health_factors) ==
    {n @@ MkDict({<<"utilization_ratio", u>>, <<"avg_health_factor", h>>}) :
        n \in RowNames, u \in utilizations, h \in health_factors}

\* rows at and next to the thresholds, given one at a time
ThresholdRows == Rows(Optional(UtilizationGrid), Optional(HealthFactorGrid))

\* rows well inside each range of the rules, given in lists
ListRows == Rows(Optional({700, 850, 950}), Optional({0, 110, 150}))

----------------------------------------------------------------------------
(* src/dune_regime_check.py: update_strategy_params.  A row of            *)
(* himari_strategy_params is a record of its columns; protocol_alerts is  *)
(* never written and reads as NULL.                                       *)

\* a leverage table whose fallback is the limit of FRAGILE
LeverageLimitOfLowDefault(regime) ==
    LET leverage_limits ==
            [STABLE |-> 25, RECOVERY |-> 30, TRANSITIONAL |-> 20,
             FRAGILE |-> 15, STRESS |-> 10]
    IN  IF regime \in DOMAIN leverage_limits THEN leverage_limits[regime]
        ELSE 15

\* leverage_limits.get(regime, 2.0), in tenths
LeverageLimitOf(regime) ==
    LET leverage_limits ==
            [STABLE |-> 25, RECOVERY |-> 30, TRANSITIONAL |-> 20,
             FRAGILE |-> 15, STRESS |-> 10]
    IN  IF regime \in DOMAIN leverage_limits THEN leverage_limits[regime]
        ELSE 20

\* the row inserted at time t: base_position 0.5 BTC times the multiplier
\* in tenths gives hundredths of a BTC
StrategyParamsRow(regime, liquidity_health, approved_by, t) ==
    [updated_at |-> Num(t),
     regime |-> regime,
     max_position_size_btc |-> Num(5 * get_risk_multiplier(regime)),
     leverage_limit |-> Num(LeverageLimitOf(regime)),
     risk_budget_multiplier |-> Num(get_risk_multiplier(regime)),
     liquidity_health |-> liquidity_health,
     approved_by |-> approved_by]

\* db: "conn" or "None"; insert_ok: whether the INSERT and commit succeed
update_strategy_params(db, rows, regime, liquidity_health, insert_ok, t) ==
    IF db = "None" THEN [rows |-> rows, ret |-> FALSE]
    ELSE IF insert_ok
    THEN [rows |-> Append(rows, StrategyParamsRow(regime, liquidity_health,
                                                  "AUTO", t)),
          ret |-> TRUE]
    ELSE [rows |-> rows, ret |-> FALSE]

----------------------------------------------------------------------------
(* src/strategy_params.py: StrategyParameterLoader.  The object is a       *)
(* record of its attributes db ("conn" or "None"), reload_interval, params *)
(* and last_load; attempt is the branch the latest load_latest took, which *)
(* the code writes to its log.  Times are in seconds.                      *)

\* ORDER BY updated_at DESC LIMIT 1: PostgreSQL puts NULL first in
\* descending order, the greatest updated_at otherwise
Latest(rows) ==
    LET nulls == {i \in DOMAIN rows : IsNone(rows[i].updated_at)}
        newest == CHOOSE i \in DOMAIN rows :
                      \A j \in DOMAIN rows :
                          rows[j].updated_at.val <= rows[i].updated_at.val
    IN  IF nulls # {} THEN rows[CHOOSE i \in nulls : TRUE] ELSE rows[newest]

\* float(v) if v else default
FloatOr(v, default) == IF Truthy(v) THEN v.val ELSE default

\* the dict that load_latest builds from the fetched row
ParamsOfRow(row) ==
    [regime |-> row.regime,
     max_position_size_btc |->
         FloatOr(row.max_position_size_btc,
                 SAFE_DEFAULTS.max_position_size_btc),
     leverage_limit |->
         FloatOr(row.leverage_limit, SAFE_DEFAULTS.leverage_limit),
     risk_budget_multiplier |->
         FloatOr(row.risk_budget_multiplier,
                 SAFE_DEFAULTS.risk_budget_multiplier),
     liquidity_health |->
         IF row.liquidity_health = "" THEN "UNKNOWN"
         ELSE row.liquidity_health,
     protocol_alerts |-> <<>>,
     updated_at |-> row.updated_at]

\* load_latest: the object after the call and the dict returned; query is
\* "ok" or "raises", t is time.time()
load_latest(self, rows, query, t) ==
    IF self.db = "None"
    THEN [self |-> [self EXCEPT !.attempt = "no_connection"],
          ret |-> SAFE_DEFAULTS]
    ELSE IF query = "raises"
    THEN [self |-> [self EXCEPT !.attempt = "query_raises"],
          ret |-> SAFE_DEFAULTS]
    ELSE IF rows = <<>>
    THEN [self |-> [self EXCEPT !.attempt = "no_row"],
          ret |-> SAFE_DEFAULTS]
    ELSE [self |-> [self EXCEPT !.params = ParamsOfRow(Latest(rows)),
                                !.last_load = t,
                                !.attempt = "loaded"],
          ret |-> ParamsOfRow(Latest(rows))]

\* _is_stale: no updated_at, or an age above STALENESS_HOURS
is_stale_missing_fresh(params, t) ==
    LET updated_at == Get(params, "updated_at", None)
    IN  IF IsNone(updated_at) THEN FALSE
        ELSE t - updated_at.val > STALENESS_HOURS * 3600

_is_stale(params, t) ==
    LET updated_at == Get(params, "updated_at", None)
    IN  IF IsNone(updated_at) THEN TRUE
        ELSE t - updated_at.val > STALENESS_HOURS * 3600

maybe_reload(self, rows, query, t) ==
    IF t - self.last_load > self.reload_interval
    THEN LET loaded == load_latest(self, rows, query, t)
         IN  IF _is_stale(loaded.ret, t)
             THEN [loaded.self EXCEPT
                       !.params = ("_stale" :> TRUE) @@ SAFE_DEFAULTS]
             ELSE loaded.self
    ELSE self

\* __init__: db_connection is "conn" or "None"; connects tells whether
\* psycopg2.connect succeeds when no connection was given
StrategyParameterLoader(db_connection, connects, reload_interval, rows, query, t) ==
    load_latest(
        [constructed |-> TRUE,
         db |-> IF db_connection = "None" /\ connects THEN "conn"
                ELSE db_connection,
         reload_interval |-> reload_interval,
         params |-> SAFE_DEFAULTS,
         last_load |-> 0,
         attempt |-> "none"],
        rows, query, t).self

----------------------------------------------------------------------------
(* src/alerts.py.  An alert is its severity and the kind of its text.  The *)
(* position sizes given to propose_parameter_change are in eighths of a    *)
(* BTC, values that binary floating point holds exactly.                   *)

\* webhook is "unset" (no URL is configured), "ok", or "fails" (the POST
\* raises RequestException); delivered are the alerts Slack has received
send_strategic_alert(delivered, alert, webhook) ==
    IF webhook = "ok"
    THEN [slack |-> Append(delivered, alert), ret |-> TRUE]
    ELSE [slack |-> delivered, ret |-> FALSE]

Abs(n) == IF n < 0 THEN -n ELSE n

\* position_size_change_pct < AUTO_APPLY_THRESHOLD, the percentage being
\* abs(new - current) / current * 100 for a positive current size, 100
\* otherwise
MinorChangeInclusive(current_size, new_size) ==
    IF current_size > 0
    THEN 100 * Abs(new_size - current_size)
             <= AUTO_APPLY_THRESHOLD * current_size
    ELSE 100 <= AUTO_APPLY_THRESHOLD

MinorChange(current_size, new_size) ==
    IF current_size > 0
    THEN 100 * Abs(new_size - current_size)
             < AUTO_APPLY_THRESHOLD * current_size
    ELSE 100 < AUTO_APPLY_THRESHOLD

\* apply_callback is TRUE when a callback is given; the outcome holds the
\* invocations of the callback, the alerts delivered, and the return.  A
\* size of None raises TypeError (in the comparison, the subtraction or
\* the formatting of the message) before anything is applied or sent.
propose_parameter_change(new_regime, current_params, recommended_params, apply_callback, delivered, webhook) ==
    LET current_size == Get(current_params, "max_position_size_btc", Num(4))
        new_size == Get(recommended_params, "max_position_size_btc", Num(4))
        minor == MinorChange(current_size.val, new_size.val)
        alert == IF minor
                 THEN [severity |-> "INFO", text |-> "auto_applied"]
                 ELSE [severity |-> "WARNING",
                       text |-> "manual_approval_required"]
        sent == send_strategic_alert(delivered, alert, webhook)
    IN  IF IsNone(current_size) \/ IsNone(new_size)
        THEN [applied |-> <<>>, slack |-> delivered,
              result |-> Raise("TypeError")]
        ELSE [applied |-> IF minor /\ apply_callback
                          THEN <<[params |-> recommended_params,
                                  approved_by |-> "AUTO"]>>
                          ELSE <<>>,
              slack |-> sent.slack,
              result |-> [exc |-> "none", ret |-> sent.ret]]

send_regime_change_alert(delivered, old_regime, new_regime, webhook) ==
    send_strategic_alert(
        delivered,
        [severity |-> IF new_regime \in {"STRESS", "FRAGILE"} THEN "CRITICAL"
                      ELSE IF new_regime = "TRANSITIONAL" THEN "WARNING"
                      ELSE "INFO",
         text |-> "regime_changed"],
        webhook)

send_error_alert(delivered, webhook) ==
    send_strategic_alert(delivered,
                         [severity |-> "CRITICAL", text |-> "system_error"],
                         webhook)

----------------------------------------------------------------------------
(* src/dune_regime_check.py: the batch job.  A regime read from the        *)
(* database is a sequence of at most one label, <<>> standing for None; a  *)
(* result of DuneClient.get_latest_results is the sequence of its rows,    *)
(* <<>> standing for None and for the empty list, which main treats alike. *)

\* query is "ok" or "raises"
get_previous_regime(db, hist, query) ==
    IF db = "None" \/ query = "raises" \/ hist = <<>> THEN <<>>
    ELSE <<hist[Len(hist)].regime>>

\* the row of dune_regime_history; liquidity_ratio is in hundredths
store_regime_data(db, hist, regime, metrics, insert_ok, t) ==
    IF db = "None" THEN [rows |-> hist, ret |-> FALSE]
    ELSE IF insert_ok
    THEN [rows |-> Append(hist,
                          [timestamp |-> t,
                           regime |-> regime,
                           oi_growth |-> Get(metrics, "oi_growth_pct_7d", Num(0)),
                           funding_avg |-> Get(metrics, "avg_funding", Num(0)),
                           liquidity_ratio |->
                               Get(metrics, "liquidity_ratio", Num(100))]),
          ret |-> TRUE]
    ELSE [rows |-> hist, ret |-> FALSE]

\* the metrics main uses when Dune has no result
MockMetrics ==
    [avg_funding |-> Num(50), oi_growth_pct_7d |-> Num(5),
     total_liquidations_7d |-> Num(15000000)]

\* 'if previous_regime and regime != previous_regime'
RegimeChangedOrKept(previous_regime, regime) == previous_regime # <<>>

RegimeChanged(previous_regime, regime) ==
    previous_regime # <<>> /\ previous_regime[1] # regime

\* main: run holds what the surroundings do during this run (whether the
\* database connects, the Dune results, whether the query and the inserts
\* succeed, the state of the webhook); the outcome holds the two tables,
\* the alerts delivered, the regime classified, the calls made that write
\* to the database or to Slack, in their order, and the exit status
main(dry_run, run, hist, rows, delivered, t) ==
    LET db == IF dry_run \/ ~run.connects THEN "None" ELSE "conn"
        previous_regime ==
            IF db # "None" THEN get_previous_regime(db, hist, run.query)
            ELSE <<>>
        metrics == IF run.regime_data # <<>> THEN run.regime_data[1]
                   ELSE MockMetrics
        regime == classify_market_regime(metrics)
        liquidity_metrics ==
            IF run.liquidity_data # <<>> THEN run.liquidity_data[1]
            ELSE [tvl_today |-> None, tvl_30d_avg |-> None]
        liquidity == assess_liquidity_health(liquidity_metrics)
        deviation_pct == Get(liquidity.ret, "deviation_pct", Num(0))
        stored == store_regime_data(
                      db, hist, regime.ret,
                      [k \in DOMAIN metrics \cup {"liquidity_ratio"} |->
                          IF k = "liquidity_ratio"
                          THEN Num(deviation_pct.val + 100)
                          ELSE metrics[k]],
                      run.store_ok, t)
        updated == update_strategy_params(db, rows, regime.ret,
                                          liquidity.ret.health,
                                          run.update_ok, t)
        changed == RegimeChanged(previous_regime, regime.ret)
        \* the except branch: send_error_alert, then sys.exit(1)
        failed == [history |-> hist, table |-> rows,
                   slack |-> send_error_alert(delivered, run.webhook).slack,
                   regime |-> IF Raised(regime) THEN "" ELSE regime.ret,
                   events |-> <<"send_error_alert">>,
                   exit |-> 1]
    IN  IF Raised(regime) \/ Raised(liquidity) THEN failed
        ELSE IF dry_run
        THEN [history |-> hist, table |-> rows, slack |-> delivered,
              regime |-> regime.ret, events |-> <<>>, exit |-> 0]
        \* None / 100 raises TypeError
        ELSE IF IsNone(deviation_pct) THEN failed
        ELSE [history |-> stored.rows,
              table |-> updated.rows,
              slack |-> IF changed
                        THEN send_regime_change_alert(
                                 delivered, previous_regime[1], regime.ret,
                                 run.webhook).slack
                        ELSE delivered,
              regime |-> regime.ret,
              events |-> <<"store_regime_data", "update_strategy_params">>
                         \o IF changed THEN <<"send_regime_change_alert">>
                            ELSE <<>>,
              exit |-> 0]

----------------------------------------------------------------------------
(* src/exchange_reserves_tracker.py: get_signal.  flows is the dict that   *)
(* get_net_flow_24h returns, exchange -> FlowData, amounts in whole ETH.   *)
(* The signal is in units of 1 / flow_threshold: 50000 stands for 1.0.     *)

\* ETH
flow_threshold == 50000

\* sum(f.<field> for f in flows.values())
RECURSIVE SumOver(_, _, _)
SumOver(flows, keys, field) ==
    IF keys = {} THEN 0
    ELSE LET k == CHOOSE x \in keys : TRUE
         IN  flows[k][field] + SumOver(flows, keys \ {k}, field)

Min(a, b) == IF a < b THEN a ELSE b

\* the if/else that normalises the net flow
SignalOfUnclamped(net_flow) ==
    IF net_flow > 0
    THEN [signal |-> -net_flow, direction |-> "BEARISH"]
    ELSE [signal |-> Abs(net_flow), direction |-> "BULLISH"]

SignalOf(net_flow) ==
    IF net_flow > 0
    THEN [signal |-> -Min(net_flow, flow_threshold), direction |-> "BEARISH"]
    ELSE [signal |-> Min(Abs(net_flow), flow_threshold),
          direction |-> "BULLISH"]

get_signal(flows) ==
    LET total_inflow == SumOver(flows, DOMAIN flows, "inflow_eth")
        total_outflow == SumOver(flows, DOMAIN flows, "outflow_eth")
        net_flow == total_inflow - total_outflow
    IN  IF DOMAIN flows = {}
        THEN [signal |-> 0, reasoning |-> "No flow data available"]
        ELSE [signal |-> SignalOf(net_flow).signal,
              reasoning |-> SignalOf(net_flow).direction]

----------------------------------------------------------------------------
(* The parts of the state that take no part in a specification keep the   *)
(* values below.                                                          *)

\* the clock reading at the start, three days after the zero of time.time
Epoch == 72 * 3600

NoCall == [fn |-> "none", arg |-> ""]

NoCaller ==
    [call |-> NoCall, pc |-> "idle", result |-> Return(None), calls |-> 0]

NoLoader ==
    [constructed |-> FALSE, db |-> "None", reload_interval |-> 0,
     params |-> SAFE_DEFAULTS, last_load |-> 0, attempt |-> "none"]

NoGot == [name |-> "none", ret |-> 0]

NoProposal == [pc |-> "idle"]

NoJob == [pc |-> "idle"]

CallerIdle == call = NoCall /\ pc = "idle" /\ result = Return(None)

OtherIdle == other = NoCaller

LoaderIdle == loader = NoLoader /\ got = NoGot

DbEmpty == table = <<>> /\ history = <<>>

AlertsIdle == slack = <<>> /\ proposal = NoProposal /\ applied = <<>>

JobIdle == job = NoJob

NoExecution == [pc |-> "idle"]

NoMonitor == [pc |-> "idle"]

ClientsIdle == execution = NoExecution /\ monitor = NoMonitor

----------------------------------------------------------------------------
(* The state is one call of a classification function: its name and      *)
(* argument, the caller's position, and the outcome once it has returned. *)

\* the caller has chosen a function and an argument
IsCall(c) ==
    \/ \E q \in RegimeInputs : c = [fn |-> "classify_market_regime", arg |-> q]
    \/ \E q \in LiquidityInputs :
           c = [fn |-> "assess_liquidity_health", arg |-> q]
    \/ \E q \in CycleInputs : c = [fn |-> "classify_leverage_cycle", arg |-> q]
    \/ \E r \in ThresholdRows :
           c = [fn |-> "check_protocol_health", arg |-> <<r>>]
    \/ \E n \in 0..MaxRows : \E list \in [1..n -> ListRows] :
           c = [fn |-> "check_protocol_health", arg |-> list]
    \/ \E r \in RegimeKeys : c = [fn |-> "get_risk_multiplier", arg |-> r]

Init ==
    /\ IsCall(call)
    /\ pc = "called"
    /\ result = Return(None)
    /\ now = Epoch
    /\ ClientsIdle
    /\ OtherIdle /\ LoaderIdle /\ DbEmpty /\ AlertsIdle /\ JobIdle

CallClassifyMarketRegime ==
    /\ pc = "called"
    /\ call.fn = "classify_market_regime"
    /\ result' = classify_market_regime(call.arg)
    /\ pc' = "returned"
    /\ UNCHANGED <<call, other, now, dbVars, loaderVars, slack, alertVars, job>>
    /\ UNCHANGED clientVars

CallAssessLiquidityHealth ==
    /\ pc = "called"
    /\ call.fn = "assess_liquidity_health"
    /\ result' = assess_liquidity_health(call.arg)
    /\ pc' = "returned"
    /\ UNCHANGED <<call, other, now, dbVars, loaderVars, slack, alertVars, job>>
    /\ UNCHANGED clientVars

CallClassifyLeverageCycle ==
    /\ pc = "called"
    /\ call.fn = "classify_leverage_cycle"
    /\ result' = classify_leverage_cycle(call.arg)
    /\ pc' = "returned"
    /\ UNCHANGED <<call, other, now, dbVars, loaderVars, slack, alertVars, job>>
    /\ UNCHANGED clientVars

CallCheckProtocolHealth ==
    /\ pc = "called"
    /\ call.fn = "check_protocol_health"
    /\ result' = check_protocol_health(call.arg)
    /\ pc' = "returned"
    /\ UNCHANGED <<call, other, now, dbVars, loaderVars, slack, alertVars, job>>
    /\ UNCHANGED clientVars

CallGetRiskMultiplier ==
    /\ pc = "called"
    /\ call.fn = "get_risk_multiplier"
    /\ result' = Return(get_risk_multiplier(call.arg))
    /\ pc' = "returned"
    /\ UNCHANGED <<call, other, now, dbVars, loaderVars, slack, alertVars, job>>
    /\ UNCHANGED clientVars

Next ==
    \/ CallClassifyMarketRegime
    \/ CallAssessLiquidityHealth
    \/ CallClassifyLeverageCycle
    \/ CallCheckProtocolHealth
    \/ CallGetRiskMultiplier

Spec == Init /\ [][Next]_vars

----------------------------------------------------------------------------
(* A StrategyParameterLoader and its surroundings: the table it reads,     *)
(* the batch job that inserts rows into the table, and the clock.          *)

\* longest time the clock runs, in ticks
MaxTicks == 3

\* most rows the table comes to hold
MaxTableRows == 2

\* the clock advances in steps of twelve hours
TickSeconds == 12 * 3600

\* the default of reload_interval_seconds, and one day
ReloadIntervals == {1800, 24 * 3600}

QueryOutcomes == {"ok", "raises"}

\* a row written six hours before the start, one written thirty hours
\* before, one without updated_at, and one whose numbers are NULL
RowAt(updated_at) ==
    [StrategyParamsRow("RECOVERY", "NORMAL", "AUTO", 0)
        EXCEPT !.updated_at = updated_at]

InitialTables ==
    {<<>>,
     <<RowAt(Num(Epoch - 6 * 3600))>>,
     <<RowAt(Num(Epoch - 30 * 3600))>>,
     <<RowAt(None)>>,
     <<[RowAt(Num(Epoch - 6 * 3600))
           EXCEPT !.max_position_size_btc = None,
                  !.leverage_limit = Num(0)]>>}

InitLoader ==
    /\ table \in InitialTables
    /\ history = <<>>
    /\ now = Epoch
    /\ ClientsIdle
    /\ LoaderIdle
    /\ CallerIdle /\ OtherIdle /\ AlertsIdle /\ JobIdle

Construct ==
    /\ ~loader.constructed
    /\ \E db_connection \in {"conn", "None"}, connects \in BOOLEAN,
          reload_interval \in ReloadIntervals, query \in QueryOutcomes :
           loader' = StrategyParameterLoader(db_connection, connects,
                                             reload_interval, table, query,
                                             now)
    /\ got' = NoGot
    /\ UNCHANGED <<callerVars, other, now, dbVars, slack, alertVars, job>>
    /\ UNCHANGED clientVars

\* a getter: maybe_reload, then self.params.get(key, default)
Getter(name, key, default) ==
    /\ loader.constructed
    /\ \E query \in QueryOutcomes :
           LET self == maybe_reload(loader, table, query, now)
           IN  /\ loader' = self
               /\ got' = [name |-> name, ret |-> Get(self.params, key, default)]
    /\ UNCHANGED <<callerVars, other, now, dbVars, slack, alertVars, job>>
    /\ UNCHANGED clientVars

GetMaxPositionSize ==
    Getter("get_max_position_size", "max_position_size_btc",
           SAFE_DEFAULTS.max_position_size_btc)

GetLeverageLimit ==
    Getter("get_leverage_limit", "leverage_limit",
           SAFE_DEFAULTS.leverage_limit)

GetRiskMultiplier ==
    Getter("get_risk_multiplier", "risk_budget_multiplier",
           SAFE_DEFAULTS.risk_budget_multiplier)

GetRegime == Getter("get_regime", "regime", "UNKNOWN")

\* the batch job inserts the row of a newly classified regime
UpdateStrategyParams ==
    /\ loader.constructed
    /\ Len(table) < MaxTableRows
    /\ \A i \in DOMAIN table : table[i].updated_at # Num(now)
    /\ \E regime \in {"STRESS"}, insert_ok \in BOOLEAN :
           table' = update_strategy_params("conn", table, regime, "NORMAL",
                                           insert_ok, now).rows
    /\ got' = NoGot
    /\ UNCHANGED <<callerVars, other, now, history, loader, slack,
                   alertVars, job>>
    /\ UNCHANGED clientVars

Tick ==
    /\ loader.constructed
    /\ now + TickSeconds <= Epoch + MaxTicks * TickSeconds
    /\ now' = now + TickSeconds
    /\ got' = NoGot
    /\ UNCHANGED <<callerVars, other, dbVars, loader, slack, alertVars, job>>
    /\ UNCHANGED clientVars

NextLoader ==
    \/ Construct
    \/ GetMaxPositionSize
    \/ GetLeverageLimit
    \/ GetRiskMultiplier
    \/ GetRegime
    \/ UpdateStrategyParams
    \/ Tick

SpecLoader == InitLoader /\ [][NextLoader]_vars

----------------------------------------------------------------------------
(* Two callers of the classification functions, each making one call      *)
(* after the other, in any interleaving.                                  *)

\* most calls the second caller makes
MaxCalls == 2

\* the arguments both callers draw from
SharedCalls ==
    {[fn |-> "classify_market_regime", arg |-> q] :
        q \in {[k \in {} |-> None], MockMetrics,
               [avg_funding |-> None, oi_growth_pct_7d |-> Num(5)],
               [oi_growth_pct_7d |-> Num(-20),
                total_liquidations_7d |-> Num(150000000)]}}
    \cup {[fn |-> "assess_liquidity_health", arg |-> q] :
        q \in {[k \in {} |-> None],
               [tvl_today |-> Num(700), tvl_30d_avg |-> Num(1000),
                deviation_from_30d_pct |-> Num(-30)],
               [tvl_today |-> Num(700), tvl_30d_avg |-> Num(1000),
                deviation_from_30d_pct |-> None]}}
    \cup {[fn |-> "classify_leverage_cycle", arg |-> q] :
        q \in {[k \in {} |-> None],
               [pct_elevated_funding |-> Num(75),
                max_consecutive_high |-> Num(25)]}}
    \cup {[fn |-> "check_protocol_health", arg |-> q] :
        q \in {<<>>,
               <<[utilization_ratio |-> Num(950),
                  avg_health_factor |-> Num(110)]>>}}
    \cup {[fn |-> "get_risk_multiplier", arg |-> q] :
        q \in {"STABLE", "STRESS", "INVALID"}}

\* the outcome of the call of fn with arg
Apply(fn, arg) ==
    CASE fn = "classify_market_regime" -> classify_market_regime(arg)
      [] fn = "assess_liquidity_health" -> assess_liquidity_health(arg)
      [] fn = "classify_leverage_cycle" -> classify_leverage_cycle(arg)
      [] fn = "check_protocol_health" -> check_protocol_health(arg)
      [] fn = "get_risk_multiplier" -> Return(get_risk_multiplier(arg))

InitCallers ==
    /\ call \in SharedCalls
    /\ pc = "called"
    /\ result = Return(None)
    /\ \E c \in SharedCalls :
           other = [call |-> c, pc |-> "called", result |-> Return(None),
                    calls |-> 1]
    /\ now = Epoch
    /\ ClientsIdle
    /\ LoaderIdle /\ DbEmpty /\ AlertsIdle /\ JobIdle

\* the first caller makes its next call
CallAgain ==
    /\ pc = "returned"
    /\ call' \in SharedCalls
    /\ pc' = "called"
    /\ result' = Return(None)
    /\ UNCHANGED <<other, now, dbVars, loaderVars, slack, alertVars, job>>
    /\ UNCHANGED clientVars

\* the second caller's call returns
OtherReturns ==
    /\ other.pc = "called"
    /\ other' = [other EXCEPT !.pc = "returned",
                              !.result = Apply(other.call.fn, other.call.arg)]
    /\ UNCHANGED <<callerVars, now, dbVars, loaderVars, slack, alertVars, job>>
    /\ UNCHANGED clientVars

\* the second caller makes its next call
OtherCallsAgain ==
    /\ other.pc = "returned"
    /\ other.calls < MaxCalls
    /\ \E c \in SharedCalls :
           other' = [call |-> c, pc |-> "called", result |-> Return(None),
                     calls |-> other.calls + 1]
    /\ UNCHANGED <<callerVars, now, dbVars, loaderVars, slack, alertVars, job>>
    /\ UNCHANGED clientVars

NextCallers ==
    \/ CallClassifyMarketRegime
    \/ CallAssessLiquidityHealth
    \/ CallClassifyLeverageCycle
    \/ CallCheckProtocolHealth
    \/ CallGetRiskMultiplier
    \/ CallAgain
    \/ OtherReturns
    \/ OtherCallsAgain

SpecCallers == InitCallers /\ [][NextCallers]_vars

----------------------------------------------------------------------------
(* One call of propose_parameter_change. *)

\* current sizes: not positive, and two positive ones
CurrentSizeGrid == {-8, 0, 10, 20}

\* new sizes at a change of exactly 10 percent of those, and next to it
NewSizeGrid ==
    Around(9) \cup Around(11) \cup Around(18) \cup Around(22) \cup {0, 4, 40}

SizeDicts(sizes) ==
    {MkDict({<<"max_position_size_btc", v>>}) : v \in Optional(sizes)}

InitPropose ==
    /\ \E current_params \in SizeDicts(CurrentSizeGrid),
          recommended_params \in SizeDicts(NewSizeGrid),
          apply_callback \in BOOLEAN,
          webhook \in {"unset", "ok", "fails"} :
           proposal = [pc |-> "called",
                       new_regime |-> "STRESS",
                       current_params |-> current_params,
                       recommended_params |-> recommended_params,
                       apply_callback |-> apply_callback,
                       webhook |-> webhook,
                       result |-> [exc |-> "none", ret |-> FALSE]]
    /\ applied = <<>>
    /\ slack = <<>>
    /\ now = Epoch
    /\ ClientsIdle
    /\ CallerIdle /\ OtherIdle /\ LoaderIdle /\ DbEmpty /\ JobIdle

ProposeParameterChange ==
    /\ proposal.pc = "called"
    /\ LET out == propose_parameter_change(
                      proposal.new_regime, proposal.current_params,
                      proposal.recommended_params, proposal.apply_callback,
                      slack, proposal.webhook)
       IN  /\ applied' = applied \o out.applied
           /\ slack' = out.slack
           /\ proposal' = [proposal EXCEPT !.pc = "returned",
                                           !.result = out.result]
    /\ UNCHANGED <<callerVars, other, now, dbVars, loaderVars, job>>
    /\ UNCHANGED clientVars

NextPropose == ProposeParameterChange

SpecPropose == InitPropose /\ [][NextPropose]_vars

----------------------------------------------------------------------------
(* One run of the batch job. *)

\* results of the regime query: none, a row that classifies, a row that
\* classifies as STRESS, a row whose funding is null, a row without keys
RegimeResults ==
    {<<>>,
     <<MockMetrics>>,
     <<[avg_funding |-> Num(50), oi_growth_pct_7d |-> Num(-20),
        total_liquidations_7d |-> Num(150000000)]>>,
     <<[avg_funding |-> None, oi_growth_pct_7d |-> Num(5),
        total_liquidations_7d |-> Num(15000000)]>>,
     <<[k \in {} |-> None]>>}

\* results of the liquidity query: none, a row with its deviation, a row
\* whose deviation is null, a row without TVL
LiquidityResults ==
    {<<>>,
     <<[tvl_today |-> Num(700), tvl_30d_avg |-> Num(1000),
        deviation_from_30d_pct |-> Num(-30)]>>,
     <<[tvl_today |-> Num(700), tvl_30d_avg |-> Num(1000),
        deviation_from_30d_pct |-> None]>>,
     <<[deviation_from_30d_pct |-> Num(-30)]>>}

\* the history is empty or holds the row of an earlier run
InitialHistories ==
    {<<>>,
     <<[timestamp |-> Epoch - 6 * 3600, regime |-> "STABLE",
        oi_growth |-> Num(5), funding_avg |-> Num(50),
        liquidity_ratio |-> Num(100)]>>}

InitMain ==
    /\ \E dry_run \in BOOLEAN, connects \in BOOLEAN,
          query \in QueryOutcomes,
          regime_data \in RegimeResults,
          liquidity_data \in LiquidityResults,
          store_ok \in BOOLEAN, update_ok \in BOOLEAN,
          webhook \in {"unset", "ok", "fails"} :
           job = [pc |-> "start",
                  dry_run |-> dry_run,
                  connects |-> connects,
                  query |-> query,
                  regime_data |-> regime_data,
                  liquidity_data |-> liquidity_data,
                  store_ok |-> store_ok,
                  update_ok |-> update_ok,
                  webhook |-> webhook,
                  regime |-> "",
                  events |-> <<>>,
                  exit |-> 0]
    /\ history \in InitialHistories
    /\ table = <<>>
    /\ slack = <<>>
    /\ now = Epoch
    /\ ClientsIdle
    /\ CallerIdle /\ OtherIdle /\ LoaderIdle
    /\ proposal = NoProposal /\ applied = <<>>

RunMain ==
    /\ job.pc = "start"
    /\ LET out == main(job.dry_run, job, history, table, slack, now)
       IN  /\ history' = out.history
           /\ table' = out.table
           /\ slack' = out.slack
           /\ job' = [job EXCEPT !.pc = "done", !.regime = out.regime,
                                 !.events = out.events, !.exit = out.exit]
    /\ UNCHANGED <<callerVars, other, now, loaderVars, alertVars>>
    /\ UNCHANGED clientVars

NextMain == RunMain

SpecMain == InitMain /\ [][NextMain]_vars

----------------------------------------------------------------------------
(* One call of ExchangeReservesTracker.get_signal. *)

\* amounts at the threshold and next to it, none, little, and a lot
FlowGrid == Around(flow_threshold) \cup {0, 1, 120000}

FlowDataOf(exchange, inflow, outflow) ==
    [exchange |-> exchange, inflow_eth |-> inflow, outflow_eth |-> outflow,
     net_flow_eth |-> inflow - outflow, transfer_count |-> 2]

\* a call with the flows of no, one or two exchanges
IsSignalCall(c) ==
    \/ c = [fn |-> "get_signal", arg |-> [k \in {} |-> 0]]
    \/ \E i \in FlowGrid, o \in FlowGrid :
           c = [fn |-> "get_signal",
                arg |-> [k \in {"binance"} |-> FlowDataOf(k, i, o)]]
    \/ \E i1 \in FlowGrid, o1 \in FlowGrid, i2 \in FlowGrid, o2 \in FlowGrid :
           c = [fn |-> "get_signal",
                arg |-> [k \in {"binance", "coinbase"} |->
                            IF k = "binance" THEN FlowDataOf(k, i1, o1)
                            ELSE FlowDataOf(k, i2, o2)]]

InitSignal ==
    /\ IsSignalCall(call)
    /\ pc = "called"
    /\ result = Return(None)
    /\ now = Epoch
    /\ ClientsIdle
    /\ OtherIdle /\ LoaderIdle /\ DbEmpty /\ AlertsIdle /\ JobIdle

CallGetSignal ==
    /\ pc = "called"
    /\ call.fn = "get_signal"
    /\ result' = Return(get_signal(call.arg))
    /\ pc' = "returned"
    /\ UNCHANGED <<call, other, now, dbVars, loaderVars, slack, alertVars, job>>
    /\ UNCHANGED clientVars

NextSignal == CallGetSignal

SpecSignal == InitSignal /\ [][NextSignal]_vars

----------------------------------------------------------------------------
(* One call of update_strategy_params. *)

LiquidityHealths ==
    {"CRITICAL", "POOR", "BELOW_AVERAGE", "NORMAL", "EXCELLENT", "UNKNOWN"}

InitUpdate ==
    /\ \E db \in {"conn", "None"}, regime \in RegimeKeys,
          liquidity_health \in LiquidityHealths, insert_ok \in BOOLEAN :
           job = [pc |-> "update_called",
                  db |-> db,
                  regime |-> regime,
                  liquidity_health |-> liquidity_health,
                  insert_ok |-> insert_ok,
                  ret |-> FALSE]
    /\ table \in InitialTables
    /\ history = <<>>
    /\ slack = <<>>
    /\ now = Epoch
    /\ ClientsIdle
    /\ CallerIdle /\ OtherIdle /\ LoaderIdle
    /\ proposal = NoProposal /\ applied = <<>>

CallUpdateStrategyParams ==
    /\ job.pc = "update_called"
    /\ LET out == update_strategy_params(job.db, table, job.regime,
                                         job.liquidity_health, job.insert_ok,
                                         now)
       IN  /\ table' = out.rows
           /\ job' = [job EXCEPT !.pc = "update_returned", !.ret = out.ret]
    /\ UNCHANGED <<callerVars, other, now, history, loaderVars, slack,
                   alertVars>>
    /\ UNCHANGED clientVars

NextUpdate == CallUpdateStrategyParams

SpecUpdate == InitUpdate /\ [][NextUpdate]_vars

----------------------------------------------------------------------------
(* Properties.  The expected answers below are written from the stated     *)
(* rules with their literal numbers, not from the tables above.            *)

Returned(fn) == pc = "returned" /\ call.fn = fn

AllNumeric(d) == \A k \in DOMAIN d : IsNum(d[k])

RegimeDictKeys == {"avg_funding", "oi_growth_pct_7d", "total_liquidations_7d"}

\* the number a numeric dict gives for a key, or the stated default
Read(d, key, default) == IF key \in DOMAIN d THEN d[key].val ELSE default

FragileRule(f, oi, liq) == oi > 25 /\ f > 100 /\ liq > 50000000

StressRule(f, oi, liq) == oi < -15 /\ liq > 100000000

RecoveryRule(f, oi, liq) ==
    -15 <= oi /\ oi <= 0 /\ 30 <= f /\ f <= 80 /\ liq < 20000000

StableRule(f, oi, liq) ==
    -10 <= oi /\ oi <= 15 /\ 10 <= f /\ f <= 60 /\ liq < 30000000

FirstMatch(f, oi, liq) ==
    CASE FragileRule(f, oi, liq) -> "FRAGILE"
      [] ~FragileRule(f, oi, liq) /\ StressRule(f, oi, liq) -> "STRESS"
      [] ~FragileRule(f, oi, liq) /\ ~StressRule(f, oi, liq)
           /\ RecoveryRule(f, oi, liq) -> "RECOVERY"
      [] ~FragileRule(f, oi, liq) /\ ~StressRule(f, oi, liq)
           /\ ~RecoveryRule(f, oi, liq) /\ StableRule(f, oi, liq) -> "STABLE"
      [] OTHER -> "TRANSITIONAL"

\* the three metrics of the call in hand, absent ones at the stated defaults
ArgFunding == Read(call.arg, "avg_funding", 50)

ArgOi == Read(call.arg, "oi_growth_pct_7d", 0)

ArgLiq == Read(call.arg, "total_liquidations_7d", 0)

NumericRegimeCall ==
    Returned("classify_market_regime") /\ AllNumeric(call.arg)

\* C1: for every input with the three metrics present as numbers,
\* classify_market_regime returns the first regime of the order FRAGILE,
\* STRESS, RECOVERY, STABLE whose rule matches, and TRANSITIONAL when none
\* does.
C1_FirstMatchWins ==
    (NumericRegimeCall /\ DOMAIN call.arg = RegimeDictKeys)
        => result = Return(FirstMatch(ArgFunding, ArgOi, ArgLiq))

\* a snapshot matching both the RECOVERY and the STABLE rule is RECOVERY
C1_Witness ==
    /\ NumericRegimeCall /\ DOMAIN call.arg = RegimeDictKeys
    /\ RecoveryRule(ArgFunding, ArgOi, ArgLiq)
    /\ StableRule(ArgFunding, ArgOi, ArgLiq)
    /\ result = Return("RECOVERY")

\* C2: for every mapping whose present values are numbers, any subset of
\* the three keys present, classify_market_regime does not raise and returns
\* one label of the fixed regime set, the one the rules give when an absent
\* avg_funding is read as 0.05, an absent oi_growth_pct_7d as 0 and an absent
\* total_liquidations_7d as 0.
C2_TotalWithDefaults ==
    NumericRegimeCall =>
        /\ ~Raised(result)
        /\ result.ret \in {"STABLE", "RECOVERY", "TRANSITIONAL", "FRAGILE",
                            "STRESS", "UNKNOWN"}
        /\ result.ret = FirstMatch(ArgFunding, ArgOi, ArgLiq)

\* the empty mapping is classified, from the three defaults, as RECOVERY
C2_Witness ==
    /\ Returned("classify_market_regime")
    /\ DOMAIN call.arg = {}
    /\ result = Return("RECOVERY")

\* C3: whenever the snapshot satisfies the FRAGILE rule or the STRESS rule,
\* classify_market_regime returns neither STABLE nor RECOVERY, and a snapshot
\* satisfying both the FRAGILE and the STABLE rule is classified FRAGILE.
C3_RiskierRegimeFirst ==
    NumericRegimeCall =>
        /\ (FragileRule(ArgFunding, ArgOi, ArgLiq)
               \/ StressRule(ArgFunding, ArgOi, ArgLiq))
              => (~Raised(result) /\ result.ret \notin {"STABLE", "RECOVERY"})
        /\ (FragileRule(ArgFunding, ArgOi, ArgLiq)
               /\ StableRule(ArgFunding, ArgOi, ArgLiq))
              => result = Return("FRAGILE")

\* a snapshot satisfying the FRAGILE rule has been classified
C3_Witness ==
    /\ NumericRegimeCall
    /\ FragileRule(ArgFunding, ArgOi, ArgLiq)
    /\ result = Return("FRAGILE")

\* C4 as stated: among the snapshots the classifier can be called with, the
\* one of the call in hand included, some snapshot satisfies the FRAGILE
\* predicate and the STABLE predicate of the threshold table at the same time.
C4_AsStated ==
    /\ call.fn = "classify_market_regime" => call.arg \in RegimeInputs
    /\ \E q \in RegimeInputs :
        /\ AllNumeric(q)
        /\ FragileCond(Read(q, "avg_funding", 50),
                       Read(q, "oi_growth_pct_7d", 0),
                       Read(q, "total_liquidations_7d", 0))
        /\ StableCond(Read(q, "avg_funding", 50),
                      Read(q, "oi_growth_pct_7d", 0),
                      Read(q, "total_liquidations_7d", 0))

\* C4 amended: the FRAGILE and STABLE ranges of the threshold table are
\* mutually exclusive; no snapshot satisfies both predicates, because on each
\* of the three metrics no value lies in the FRAGILE and in the STABLE range.
C4_FragileStableDisjoint ==
    (call.fn = "classify_market_regime" /\ AllNumeric(call.arg)) =>
        /\ ~(FragileOi(ArgOi) /\ StableOi(ArgOi))
        /\ ~(FragileFunding(ArgFunding) /\ StableFunding(ArgFunding))
        /\ ~(FragileLiq(ArgLiq) /\ StableLiq(ArgLiq))
        /\ ~(FragileCond(ArgFunding, ArgOi, ArgLiq)
               /\ StableCond(ArgFunding, ArgOi, ArgLiq))

\* the snapshot just past every FRAGILE threshold is FRAGILE and not STABLE
C4_Witness ==
    /\ NumericRegimeCall
    /\ ArgOi = 26 /\ ArgFunding = 101 /\ ArgLiq = 50000001
    /\ FragileCond(ArgFunding, ArgOi, ArgLiq)
    /\ ~StableCond(ArgFunding, ArgOi, ArgLiq)
    /\ result = Return("FRAGILE")

\* C5 as stated: when a metric key is absent (the empty mapping included)
\* classify_market_regime returns a regime whose risk multiplier does not
\* exceed the conservative fallback multiplier 0.8.
C5_AsStated ==
    (NumericRegimeCall /\ DOMAIN call.arg # RegimeDictKeys) =>
        /\ ~Raised(result)
        /\ get_risk_multiplier(result.ret) <= 8

\* C6 as stated: a call whose argument holds None under a metric key still
\* returns a result; no classification function raises.
C6_AsStated ==
    (pc = "returned"
       /\ call.fn \in {"classify_market_regime", "assess_liquidity_health",
                        "classify_leverage_cycle", "check_protocol_health"})
        => ~Raised(result)

\* C7: get_risk_multiplier returns STABLE 1.0, RECOVERY 1.2, TRANSITIONAL 0.8,
\* FRAGILE 0.5, STRESS 0.3, UNKNOWN 0.8, and 0.8 for every other key.
C7_RiskMultiplierTable ==
    Returned("get_risk_multiplier") =>
        result = Return(CASE call.arg = "STABLE" -> 10
                          [] call.arg = "RECOVERY" -> 12
                          [] call.arg = "TRANSITIONAL" -> 8
                          [] call.arg = "FRAGILE" -> 5
                          [] call.arg = "STRESS" -> 3
                          [] OTHER -> 8)

\* a key that is not in the table has been looked up
C7_Witness ==
    /\ Returned("get_risk_multiplier")
    /\ call.arg = "INVALID"
    /\ result = Return(8)

BothTvlPresent ==
    /\ {"tvl_today", "tvl_30d_avg"} \subseteq DOMAIN call.arg
    /\ IsNum(call.arg["tvl_today"])
    /\ IsNum(call.arg["tvl_30d_avg"])

DeviationGiven ==
    /\ "deviation_from_30d_pct" \in DOMAIN call.arg
    /\ IsNum(call.arg["deviation_from_30d_pct"])

ArgDeviation == call.arg["deviation_from_30d_pct"].val

\* C8: with both TVL values present, a deviation < -30 gives CRITICAL with
\* -0.4, else < -15 POOR with -0.2, else < -5 BELOW_AVERAGE with -0.1, else
\* > 20 EXCELLENT with +0.1, else NORMAL with 0.0; exactly -30 is POOR,
\* exactly 20 is NORMAL and -35 is CRITICAL with -0.4.  The adjustment is the
\* number the returned record carries for the chosen bucket.
C8_LiquidityBuckets ==
    (Returned("assess_liquidity_health") /\ BothTvlPresent /\ DeviationGiven)
        =>
        /\ ~Raised(result)
        /\ <<result.ret.health, result.ret.position_size_adjustment>> =
              (CASE ArgDeviation < -30 -> <<"CRITICAL", -4>>
                 [] -30 <= ArgDeviation /\ ArgDeviation < -15 -> <<"POOR", -2>>
                 [] -15 <= ArgDeviation /\ ArgDeviation < -5
                      -> <<"BELOW_AVERAGE", -1>>
                 [] ArgDeviation > 20 -> <<"EXCELLENT", 1>>
                 [] OTHER -> <<"NORMAL", 0>>)
        /\ ArgDeviation = -30 => result.ret.health = "POOR"
        /\ ArgDeviation = 20 => result.ret.health = "NORMAL"
        /\ ArgDeviation = -35 => result.ret.health = "CRITICAL"

\* a deviation of exactly -30 has been bucketed as POOR
C8_Witness ==
    /\ Returned("assess_liquidity_health") /\ BothTvlPresent /\ DeviationGiven
    /\ ArgDeviation = -30
    /\ result.ret.health = "POOR"
    /\ result.ret.position_size_adjustment = -2

TvlAbsent(key) == key \notin DOMAIN call.arg \/ IsNone(call.arg[key])

\* C9: when tvl_today or tvl_30d_avg is a missing key or None,
\* assess_liquidity_health returns health UNKNOWN with adjustment 0 whatever
\* the deviation (None included); a TVL of 0 counts as present, so two
\* present TVL values, zeros included, never give UNKNOWN.
C9_UnknownWithoutTvl ==
    Returned("assess_liquidity_health") =>
        /\ (TvlAbsent("tvl_today") \/ TvlAbsent("tvl_30d_avg"))
              => /\ ~Raised(result)
                 /\ result.ret.health = "UNKNOWN"
                 /\ result.ret.adjustment = 0
        /\ (~TvlAbsent("tvl_today") /\ ~TvlAbsent("tvl_30d_avg")
               /\ ~Raised(result))
              => result.ret.health # "UNKNOWN"

\* one TVL value is 0, the other is missing, the deviation is None
C9_Witness ==
    /\ Returned("assess_liquidity_health")
    /\ "tvl_today" \in DOMAIN call.arg /\ call.arg["tvl_today"] = Num(0)
    /\ "tvl_30d_avg" \notin DOMAIN call.arg
    /\ "deviation_from_30d_pct" \in DOMAIN call.arg
    /\ IsNone(call.arg["deviation_from_30d_pct"])
    /\ result.ret.health = "UNKNOWN"
    /\ result.ret.adjustment = 0

\* C10 as stated: every record assess_liquidity_health returns has the two
\* fields health and adjustment, on the UNKNOWN path and on the bucket path.
C10_AsStated ==
    (Returned("assess_liquidity_health") /\ ~Raised(result))
        => {"health", "adjustment"} \subseteq DOMAIN result.ret

Severity(health) ==
    CASE health = "EXCELLENT" -> 0
      [] health = "NORMAL" -> 1
      [] health = "BELOW_AVERAGE" -> 2
      [] health = "POOR" -> 3
      [] health = "CRITICAL" -> 4

\* the answer to the call in hand had its deviation been d
WithDeviation(d) ==
    assess_liquidity_health(
        [call.arg EXCEPT !["deviation_from_30d_pct"] = Num(d)]).ret

\* C11: with both TVL values present and fixed, for any two deviations
\* d1 <= d2 the health for d1 is at least as severe as the health for d2 in
\* the order EXCELLENT < NORMAL < BELOW_AVERAGE < POOR < CRITICAL, and the
\* adjustment for d1 is not greater than the adjustment for d2.
C11_LiquidityMonotonic ==
    (Returned("assess_liquidity_health") /\ BothTvlPresent /\ DeviationGiven)
        => \A d2 \in DeviationGrid :
              ArgDeviation <= d2 =>
                  /\ Severity(result.ret.health)
                        >= Severity(WithDeviation(d2).health)
                  /\ result.ret.position_size_adjustment
                        <= WithDeviation(d2).position_size_adjustment

\* a deviation in the CRITICAL bucket, with larger deviations in every other
\* bucket to compare it with
C11_Witness ==
    /\ Returned("assess_liquidity_health") /\ BothTvlPresent /\ DeviationGiven
    /\ ArgDeviation = -31
    /\ result.ret.health = "CRITICAL"
    /\ {WithDeviation(d2).health : d2 \in {d \in DeviationGrid : d > -31}}
          = {"POOR", "BELOW_AVERAGE", "NORMAL", "EXCELLENT"}

CycleKeys == {"pct_elevated_funding", "max_consecutive_high"}

ArgPct == Read(call.arg, "pct_elevated_funding", 0)

ArgConsecutive == Read(call.arg, "max_consecutive_high", 0)

\* C12: classify_leverage_cycle gives LATE_CYCLE (1.5, 0.6) when
\* pct_elevated > 70 and max_consecutive > 20; else MID_CYCLE (2.0, 1.0) when
\* pct_elevated > 50 and max_consecutive > 10; else EARLY_CYCLE (3.0, 1.2)
\* when pct_elevated < 30; else TRANSITIONAL (2.0, 0.9); the pair is
\* (leverage_limit, position_size_mult) and absent inputs are read as 0.
C12_LeverageCycleRules ==
    (Returned("classify_leverage_cycle") /\ AllNumeric(call.arg)) =>
        /\ ~Raised(result)
        /\ <<result.ret.phase, result.ret.leverage_limit,
              result.ret.position_size_mult>> =
              (CASE ArgPct > 70 /\ ArgConsecutive > 20 -> <<"LATE_CYCLE", 15, 6>>
                 [] ~(ArgPct > 70 /\ ArgConsecutive > 20)
                      /\ ArgPct > 50 /\ ArgConsecutive > 10
                      -> <<"MID_CYCLE", 20, 10>>
                 [] ~(ArgPct > 50 /\ ArgConsecutive > 10) /\ ArgPct < 30
                      -> <<"EARLY_CYCLE", 30, 12>>
                 [] OTHER -> <<"TRANSITIONAL", 20, 9>>)

\* inputs past both LATE_CYCLE thresholds, hence past both MID_CYCLE ones
C12_Witness ==
    /\ Returned("classify_leverage_cycle") /\ AllNumeric(call.arg)
    /\ DOMAIN call.arg = CycleKeys
    /\ ArgPct = 71 /\ ArgConsecutive = 21
    /\ result.ret.phase = "LATE_CYCLE"
    /\ result.ret.leverage_limit = 15
    /\ result.ret.position_size_mult = 6

\* the rows of a call hold no None utilization
UtilizationsNumeric(rows) ==
    \A i \in DOMAIN rows :
        "utilization_ratio" \in DOMAIN rows[i]
            => IsNum(rows[i]["utilization_ratio"])

\* the levels of the utilization alerts the rule asks for, row after row
RECURSIVE UtilizationLevels(_)
UtilizationLevels(rows) ==
    IF rows = <<>> THEN <<>>
    ELSE (CASE Read(Head(rows), "utilization_ratio", 0) > 900 -> <<"CRITICAL">>
            [] Read(Head(rows), "utilization_ratio", 0) > 800
                 /\ Read(Head(rows), "utilization_ratio", 0) <= 900
                 -> <<"WARNING">>
            [] OTHER -> <<>>)
         \o UtilizationLevels(Tail(rows))

IsUtilizationAlert(a) == a.about = "utilization"

IsHealthFactorAlert(a) == a.about = "health factor"

RECURSIVE LevelsOf(_)
LevelsOf(alerts) ==
    IF alerts = <<>> THEN <<>>
    ELSE <<Head(alerts).level>> \o LevelsOf(Tail(alerts))

\* C13: each row gives at most one utilization alert: CRITICAL iff its
\* utilization_ratio > 0.90, WARNING iff 0.80 < utilization_ratio <= 0.90,
\* none iff it is <= 0.80, an absent utilization read as 0; a single row with
\* utilization 0.95 and health factor 1.5 gives exactly one alert, CRITICAL.
C13_UtilizationAlerts ==
    (Returned("check_protocol_health") /\ UtilizationsNumeric(call.arg)) =>
        /\ ~Raised(result)
        /\ LevelsOf(SelectSeq(result.ret, IsUtilizationAlert))
              = UtilizationLevels(call.arg)
        /\ (/\ Len(call.arg) = 1
            /\ Read(call.arg[1], "utilization_ratio", 0) = 950
            /\ Read(call.arg[1], "avg_health_factor", 0) = 150)
              => (Len(result.ret) = 1 /\ result.ret[1].level = "CRITICAL")

\* a row at exactly 0.90 has given a WARNING
C13_Witness ==
    /\ Returned("check_protocol_health")
    /\ Len(call.arg) = 1
    /\ "utilization_ratio" \in DOMAIN call.arg[1]
    /\ call.arg[1]["utilization_ratio"] = Num(900)
    /\ LevelsOf(SelectSeq(result.ret, IsUtilizationAlert)) = <<"WARNING">>

\* the health-factor alerts the rule asks for, one CRITICAL for each row
\* whose avg_health_factor is a number below 1.3
RECURSIVE HealthFactorLevels(_)
HealthFactorLevels(rows) ==
    IF rows = <<>> THEN <<>>
    ELSE (IF /\ "avg_health_factor" \in DOMAIN Head(rows)
             /\ IsNum(Head(rows)["avg_health_factor"])
             /\ Head(rows)["avg_health_factor"].val < 130
          THEN <<"CRITICAL">> ELSE <<>>)
         \o HealthFactorLevels(Tail(rows))

\* C14 as stated: every row whose avg_health_factor is present and below 1.3,
\* the value 0 included, gives a CRITICAL health-factor alert whatever its
\* utilization; a row whose avg_health_factor is absent or >= 1.3 gives none.
C14_AsStated ==
    (Returned("check_protocol_health") /\ ~Raised(result)) =>
        LevelsOf(SelectSeq(result.ret, IsHealthFactorAlert))
            = HealthFactorLevels(call.arg)

\* what one row alone gives
RowAlerts(row) == check_protocol_health(<<row>>).ret

RECURSIVE ConcatRows(_)
ConcatRows(rows) ==
    IF rows = <<>> THEN <<>>
    ELSE RowAlerts(Head(rows)) \o ConcatRows(Tail(rows))

\* C15: the list returned is the concatenation, in input row order, of the
\* alerts of each row, the utilization alert before the health-factor alert;
\* a row gives zero, one or two alerts and the total is at most twice the
\* number of rows.
C15_AlertsInRowOrder ==
    (Returned("check_protocol_health") /\ ~Raised(result)) =>
        /\ result.ret = ConcatRows(call.arg)
        /\ Len(result.ret) <= 2 * Len(call.arg)
        /\ \A i \in DOMAIN call.arg :
              /\ Len(RowAlerts(call.arg[i])) <= 2
              /\ Len(RowAlerts(call.arg[i])) = 2
                    => /\ IsUtilizationAlert(RowAlerts(call.arg[i])[1])
                       /\ IsHealthFactorAlert(RowAlerts(call.arg[i])[2])

\* two rows with different alerts, each giving two
C15_Witness ==
    /\ Returned("check_protocol_health") /\ ~Raised(result)
    /\ Len(call.arg) = 2
    /\ Len(result.ret) = 4
    /\ result.ret[1].level = "WARNING"
    /\ result.ret[3].level = "CRITICAL"
    /\ <<result.ret[1], result.ret[2]>> = RowAlerts(call.arg[1])
    /\ <<result.ret[3], result.ret[4]>> = RowAlerts(call.arg[2])

----------------------------------------------------------------------------
(* StrategyParameterLoader *)

\* the most recent record has no updated_at or is older than 24 hours
RecordStale ==
    /\ table # <<>>
    /\ \/ IsNone(Latest(table).updated_at)
       \/ now - Latest(table).updated_at.val > STALENESS_HOURS * 3600

\* what a getter returns when the safe defaults are served
SafeReturn(name) ==
    CASE name = "get_regime" -> "UNKNOWN"
      [] name = "get_max_position_size" -> SAFE_DEFAULTS.max_position_size_btc
      [] name = "get_leverage_limit" -> SAFE_DEFAULTS.leverage_limit
      [] name = "get_risk_multiplier" -> SAFE_DEFAULTS.risk_budget_multiplier

GotReturn == got.name # "none"

\* C16: whenever the most recent record of himari_strategy_params has no
\* updated_at or is older than 24 hours, each of the four getters returns
\* its safe default.
C16_AsStated == GotReturn /\ RecordStale => got.ret = SafeReturn(got.name)

NoUsableRecord == loader.attempt \in {"no_connection", "query_raises", "no_row"}

----------------------------------------------------------------------------
(* propose_parameter_change *)

ProposalReturned == proposal.pc = "returned"

ArgCurrentSize ==
    Get(proposal.current_params, "max_position_size_btc", Num(4))

ArgNewSize ==
    Get(proposal.recommended_params, "max_position_size_btc", Num(4))

\* the change of the position size is strictly below 10 percent of a
\* positive current size
ChangeBelowTen ==
    /\ ArgCurrentSize.val > 0
    /\ \/ /\ ArgNewSize.val >= ArgCurrentSize.val
          /\ 10 * (ArgNewSize.val - ArgCurrentSize.val) < ArgCurrentSize.val
       \/ /\ ArgNewSize.val < ArgCurrentSize.val
          /\ 10 * (ArgCurrentSize.val - ArgNewSize.val) < ArgCurrentSize.val

\* C19: for numeric sizes the callback is invoked, once and with
\* approved_by 'AUTO', exactly when a callback is given and the change is
\* strictly below 10 percent; at 10 percent or more, or with a current size
\* that is not positive, it is not invoked and every alert delivered is the
\* WARNING that asks for manual approval.
C19_AutoApplyOnlyMinor ==
    ProposalReturned /\ IsNum(ArgCurrentSize) /\ IsNum(ArgNewSize) =>
        /\ applied # <<>> <=> proposal.apply_callback /\ ChangeBelowTen
        /\ applied # <<>> =>
               applied = <<[params |-> proposal.recommended_params,
                            approved_by |-> "AUTO"]>>
        /\ ~ChangeBelowTen =>
               /\ applied = <<>>
               /\ proposal.webhook = "ok" => Len(slack) = 1
               /\ \A i \in DOMAIN slack :
                      slack[i] = [severity |-> "WARNING",
                                  text |-> "manual_approval_required"]

\* a change of exactly 10 percent, a callback given: nothing was applied
\* and the WARNING was delivered
C19_Witness ==
    /\ ProposalReturned
    /\ proposal.apply_callback
    /\ ArgCurrentSize = Num(10)
    /\ ArgNewSize = Num(9)
    /\ applied = <<>>
    /\ Len(slack) = 1
    /\ slack[1].severity = "WARNING"

----------------------------------------------------------------------------
(* main *)

\* C20: a run with dry_run = True inserts no row into dune_regime_history
\* or himari_strategy_params and delivers no alert to Slack, on every path.
C20_AsStated ==
    [][job.pc = "start" /\ job.dry_run =>
           history' = history /\ table' = table /\ slack' = slack]_vars

----------------------------------------------------------------------------
(* Two callers *)

SameCall == call.fn = other.call.fn /\ call.arg = other.call.arg

BothReturned == pc = "returned" /\ other.pc = "returned"

NoLiquidityRun ==
    /\ job.pc = "start"
    /\ ~job.dry_run
    /\ job.connects /\ job.store_ok /\ job.update_ok
    /\ job.regime_data \in {<<>>, <<MockMetrics>>}
    /\ job.liquidity_data = <<>>

\* C22: such a run inserts the history row and the strategy-parameter row
\* with liquidity_health UNKNOWN, sends no error alert and exits with 0.
C22_AsStated ==
    [][NoLiquidityRun =>
           /\ Len(history') = Len(history) + 1
           /\ Len(table') = Len(table) + 1
           /\ table'[Len(table')].liquidity_health = "UNKNOWN"
           /\ slack' = slack
           /\ job'.exit = 0]_vars

\* a real run that came to the alert step
ReachesAlertStep == job.pc = "start" /\ ~job.dry_run /\ job'.exit = 0

\* the regime read from dune_regime_history at the start of the run
PreviousRead ==
    job.connects /\ job.query = "ok" /\ history # <<>>

AlertCalled(events) ==
    \E i \in DOMAIN events : events[i] = "send_regime_change_alert"

\* C23: a real run that comes to the alert step calls
\* send_regime_change_alert exactly when a previous regime was read and
\* differs from the regime classified now; the call comes after the calls
\* of store_regime_data and update_strategy_params, and Slack receives one
\* more alert when the call is made and the webhook works, none otherwise.
C23_AlertOnlyOnChange ==
    [][ReachesAlertStep =>
           LET differs == PreviousRead
                          /\ history[Len(history)].regime # job'.regime
           IN  /\ AlertCalled(job'.events) <=> differs
               /\ AlertCalled(job'.events) =>
                      job'.events = <<"store_regime_data",
                                      "update_strategy_params",
                                      "send_regime_change_alert">>
               /\ Len(slack') = Len(slack) +
                      (IF differs /\ job.webhook = "ok" THEN 1 ELSE 0)]_vars

\* the history held STABLE, the run classified STRESS, and the alert went
\* out after both inserts
C23_Witness ==
    /\ job.pc = "done"
    /\ ~job.dry_run
    /\ job.exit = 0
    /\ job.regime = "STRESS"
    /\ Len(history) = 2
    /\ history[1].regime = "STABLE"
    /\ history[2].regime = "STRESS"
    /\ Len(table) = 1
    /\ job.events = <<"store_regime_data", "update_strategy_params",
                      "send_regime_change_alert">>
    /\ slack = <<[severity |-> "CRITICAL", text |-> "regime_changed"]>>


----------------------------------------------------------------------------
(* update_strategy_params *)

\* the risk multiplier of a regime, in tenths
MultiplierOfRegime(regime) ==
    CASE regime = "STABLE" -> 10
      [] regime = "RECOVERY" -> 12
      [] regime = "TRANSITIONAL" -> 8
      [] regime = "FRAGILE" -> 5
      [] regime = "STRESS" -> 3
      [] OTHER -> 8

\* the leverage limit of a regime, in tenths
LeverageOfRegime(regime) ==
    CASE regime = "STABLE" -> 25
      [] regime = "RECOVERY" -> 30
      [] regime = "TRANSITIONAL" -> 20
      [] regime = "FRAGILE" -> 15
      [] regime = "STRESS" -> 10
      [] OTHER -> 20

\* C24: a call of update_strategy_params writes at most one row, whose
\* risk_budget_multiplier is the multiplier of the regime, whose
\* max_position_size_btc is half of it and whose leverage_limit is the
\* limit of the regime (2.0 for a regime outside the table); without a
\* database connection it writes nothing and returns False.
C24_ParamsFromRegime ==
    [][job.pc = "update_called" =>
           /\ job.db = "None" => table' = table /\ ~job'.ret
           /\ ~job'.ret => table' = table
           /\ job'.ret =>
                  /\ Len(table') = Len(table) + 1
                  /\ \A i \in DOMAIN table : table'[i] = table[i]
                  /\ LET row == table'[Len(table')]
                     IN  /\ row.regime = job.regime
                         /\ row.risk_budget_multiplier =
                                Num(MultiplierOfRegime(job.regime))
                         /\ row.max_position_size_btc =
                                Num(5 * MultiplierOfRegime(job.regime))
                         /\ row.leverage_limit =
                                Num(LeverageOfRegime(job.regime))]_vars

\* a regime outside the table was written with the fallbacks 0.8, 0.4 BTC
\* and 2.0
C24_Witness ==
    /\ job.pc = "update_returned"
    /\ job.ret
    /\ job.regime = "INVALID"
    /\ table # <<>>
    /\ table[Len(table)].regime = "INVALID"
    /\ table[Len(table)].risk_budget_multiplier = Num(8)
    /\ table[Len(table)].max_position_size_btc = Num(40)
    /\ table[Len(table)].leverage_limit = Num(20)


----------------------------------------------------------------------------
(* get_signal *)

SignalReturned == pc = "returned" /\ call.fn = "get_signal"

\* inflow minus outflow over all exchanges of the argument
RECURSIVE NetOver(_, _)
NetOver(flows, keys) ==
    IF keys = {} THEN 0
    ELSE LET k == CHOOSE x \in keys : TRUE
         IN  flows[k].inflow_eth - flows[k].outflow_eth
                 + NetOver(flows, keys \ {k})

ArgNet == NetOver(call.arg, DOMAIN call.arg)

\* C27: the signal lies within [-1, +1]; a net inflow gives the negative
\* signal -min(net / 50000, 1), a net outflow the positive signal
\* min(|net| / 50000, 1), and no flow data gives 0.0 with the reasoning
\* 'No flow data available'.  Signals are counted in 1/50000.
C27_SignalFromNetFlow ==
    SignalReturned =>
        LET signal == result.ret.signal
        IN  /\ -50000 <= signal /\ signal <= 50000
            /\ DOMAIN call.arg = {} =>
                   /\ signal = 0
                   /\ result.ret.reasoning = "No flow data available"
            /\ DOMAIN call.arg # {} /\ ArgNet > 0 =>
                   /\ signal < 0
                   /\ signal = IF ArgNet < 50000 THEN -ArgNet ELSE -50000
            /\ DOMAIN call.arg # {} /\ ArgNet < 0 =>
                   /\ signal > 0
                   /\ signal = IF -ArgNet < 50000 THEN -ArgNet ELSE 50000

\* two exchanges with a net inflow of 70001 ETH together: the signal is -1
C27_Witness ==
    /\ SignalReturned
    /\ DOMAIN call.arg = {"binance", "coinbase"}
    /\ ArgNet = 70001
    /\ result.ret.signal = -50000


\* ---------------------------------------------------------------------
\* DuneClient.execute_query and AlliumClient.execute_query
\* (src/dune_client.py, src/allium_client.py).  The two methods have the
\* same structure and differ in the status strings of their API.

Clients == {"dune", "allium"}

\* The longest wait and the longest pause between two status checks,
\* in seconds, that a call is made with.
MaxWait == 6

MaxPollInterval == 3

\* The longest time, in seconds, by which time.sleep oversleeps.
MaxOversleep == 1

MaxWaitSeconds == {-2, 0} \cup 1..MaxWait

PollIntervals == 1..MaxPollInterval

\* What the API answers to a status request: a state string, a failed
\* request, or a body that makes the method raise (no JSON, or for
\* Allium a null status, which has no lower()).
StatusStrings(client) ==
    IF client = "dune"
    THEN {"QUERY_STATE_COMPLETED", "QUERY_STATE_FAILED",
          "QUERY_STATE_CANCELLED", "QUERY_STATE_EXECUTING",
          "QUERY_STATE_PENDING"}
    ELSE {"completed", "COMPLETED", "failed", "Failed", "cancelled",
          "running", "queued"}

StatusAnswers(client) ==
    [kind : {"state"}, state : StatusStrings(client)]
        \cup [kind : {"no_state", "request_fails", "raises"}, state : {""}]

\* str.lower on the status strings of the Allium API
lower(s) ==
    CASE s = "COMPLETED" -> "completed"
      [] s = "Failed" -> "failed"
      [] OTHER -> s

_get_execution_status(client, answer) ==
    CASE answer.kind = "raises" -> Raise("Exception")
      [] answer.kind \in {"request_fails", "no_state"} ->
            Return(IF client = "dune" THEN "UNKNOWN" ELSE "unknown")
      [] OTHER ->
            Return(IF client = "dune" THEN answer.state
                   ELSE lower(answer.state))

\* The branch of the loop body that a status takes.
BranchOfUnknownFails(client, status) ==
    CASE client = "dune" /\ status = "QUERY_STATE_COMPLETED" -> "completed"
      [] client = "allium" /\ status = "completed" -> "completed"
      [] client = "dune"
            /\ status \in {"QUERY_STATE_FAILED", "QUERY_STATE_CANCELLED",
                           "UNKNOWN"} -> "failed"
      [] client = "allium"
            /\ status \in {"failed", "cancelled", "unknown"} -> "failed"
      [] OTHER -> "pending"

BranchOf(client, status) ==
    CASE client = "dune" /\ status = "QUERY_STATE_COMPLETED" -> "completed"
      [] client = "allium" /\ status = "completed" -> "completed"
      [] client = "dune"
            /\ status \in {"QUERY_STATE_FAILED", "QUERY_STATE_CANCELLED"}
            -> "failed"
      [] client = "allium" /\ status \in {"failed", "cancelled"} -> "failed"
      [] OTHER -> "pending"

\* The condition of the polling loop.
StillWaitingInclusive(elapsed, max_wait_seconds) ==
    elapsed <= max_wait_seconds

StillWaiting(elapsed, max_wait_seconds) == elapsed < max_wait_seconds

\* The ways _start_execution and _get_results end: with a value, with
\* None (the request failed, or the answer has no id or no rows), or
\* with an exception other than a RequestException.
CallOutcomes == {"value", "None", "raises"}

\* A call of execute_query before its first statement.
ExecuteQueryCalled(client, max_wait_seconds, poll_interval) ==
    [pc |-> "called", client |-> client,
     max_wait_seconds |-> max_wait_seconds, poll_interval |-> poll_interval,
     execution_id |-> "None", start_time |-> 0, checks |-> 0,
     status |-> "", log |-> "", result |-> "None", exc |-> "none"]

\* return None after an error was logged; execute_query catches every
\* Exception, so exc stays "none" on every path.
ReturnsNone(e, log) ==
    [e EXCEPT !.pc = "returned", !.result = "None", !.log = log]

InitExecution ==
    /\ \E client \in Clients, max_wait_seconds \in MaxWaitSeconds,
          poll_interval \in PollIntervals :
            execution =
                ExecuteQueryCalled(client, max_wait_seconds, poll_interval)
    /\ monitor = NoMonitor
    /\ now = Epoch
    /\ CallerIdle /\ OtherIdle /\ LoaderIdle /\ DbEmpty /\ AlertsIdle
    /\ JobIdle
    /\ slack = <<>>

\* execution_id = self._start_execution(...); start_time = time.time()
StartExecution ==
    /\ execution.pc = "called"
    /\ \E started \in CallOutcomes :
        execution' =
            CASE started = "value" ->
                    [execution EXCEPT !.pc = "polling",
                                      !.execution_id = "id",
                                      !.start_time = now]
              [] started = "None" -> ReturnsNone(execution, "")
              [] OTHER -> ReturnsNone(execution, "error_executing")
    /\ UNCHANGED <<callerVars, other, now, dbVars, loaderVars, slack,
                   alertVars, job, monitor>>

\* One pass of the loop body: the status request, its dispatch, and the
\* sleep of at least poll_interval seconds when the query is pending.
CheckStatus ==
    /\ execution.pc = "polling"
    /\ StillWaiting(now - execution.start_time, execution.max_wait_seconds)
    /\ \E answer \in StatusAnswers(execution.client),
          results \in CallOutcomes, oversleep \in 0..MaxOversleep :
        LET status == _get_execution_status(execution.client, answer)
            checked == [execution EXCEPT !.checks = @ + 1]
            branch == BranchOf(execution.client, status.ret)
        IN  IF Raised(status)
            THEN /\ execution' = ReturnsNone(checked, "error_executing")
                 /\ now' = now
            ELSE
            LET seen == [checked EXCEPT !.status = status.ret]
            IN  CASE branch = "completed" ->
                        /\ execution' =
                            CASE results = "value" ->
                                    [seen EXCEPT !.pc = "returned",
                                                 !.result = "rows"]
                              [] results = "None" -> ReturnsNone(seen, "")
                              [] OTHER ->
                                    ReturnsNone(seen, "error_executing")
                        /\ now' = now
                  [] branch = "failed" ->
                        /\ execution' =
                            ReturnsNone(seen, "failed_with_status")
                        /\ now' = now
                  [] OTHER ->
                        /\ execution' = seen
                        /\ now' = now + execution.poll_interval + oversleep
    /\ UNCHANGED <<callerVars, other, dbVars, loaderVars, slack, alertVars,
                   job, monitor>>

\* The loop condition is false: the query timed out.
TimeOut ==
    /\ execution.pc = "polling"
    /\ ~StillWaiting(now - execution.start_time,
                     execution.max_wait_seconds)
    /\ execution' = ReturnsNone(execution, "timed_out")
    /\ UNCHANGED <<callerVars, other, now, dbVars, loaderVars, slack,
                   alertVars, job, monitor>>

NextExecution == StartExecution \/ CheckStatus \/ TimeOut

SpecExecution == InitExecution /\ [][NextExecution]_vars

\* The caller's thread keeps running while execute_query blocks it, so
\* a step that is possible is eventually taken.
SpecExecutionFair == SpecExecution /\ WF_vars(NextExecution)


\* ---------------------------------------------------------------------
\* Claims about execute_query

ExecutionReturned == execution.pc = "returned"

CompletedStatus(client) ==
    IF client = "dune" THEN "QUERY_STATE_COMPLETED" ELSE "completed"

FailedStatuses(client) ==
    IF client = "dune"
    THEN {"QUERY_STATE_FAILED", "QUERY_STATE_CANCELLED"}
    ELSE {"failed", "cancelled"}

TerminalStatuses(client) ==
    {CompletedStatus(client)} \cup FailedStatuses(client)

\* What holds of every state of a call of execute_query.
ExecutionContract ==
    /\ execution.exc = "none"
    /\ execution.result = "rows" =>
            /\ ExecutionReturned
            /\ execution.checks >= 1
            /\ execution.status = CompletedStatus(execution.client)
    /\ ExecutionReturned /\ execution.execution_id = "None" =>
            execution.result = "None" /\ execution.checks = 0
    /\ execution.status \in FailedStatuses(execution.client) =>
            ExecutionReturned /\ execution.result = "None"
    /\ execution.log = "timed_out" =>
            ExecutionReturned /\ execution.result = "None"
    /\ ( /\ ExecutionReturned
         /\ execution.checks >= 1
         /\ execution.status \notin TerminalStatuses(execution.client) )
        => execution.log \in {"timed_out", "error_executing"}

\* A status check that reports a status other than completed, failed or
\* cancelled leaves the call polling.
OtherStatusStillPending ==
    ( /\ execution.pc = "polling"
      /\ execution'.checks = execution.checks + 1
      /\ execution'.log # "error_executing"
      /\ execution'.status \notin TerminalStatuses(execution.client) )
    => /\ execution'.pc = "polling"
       /\ execution'.result = "None"

\* C21: execute_query of DuneClient and AlliumClient returns rows only
\* after a status check reported the completed state; it returns None
\* with no status check when starting the execution fails, returns None
\* as soon as a status check reports failed or cancelled, returns None
\* on timeout, treats every other status, the unknown status of a failed
\* status request included, as still pending, and never raises.
C21_RowsOnlyAfterCompleted ==
    []ExecutionContract /\ [][OtherStatusStillPending]_vars

\* Rows were returned after an earlier status check found the query
\* still pending.
C21_Witness ==
    /\ ExecutionReturned
    /\ execution.result = "rows"
    /\ execution.checks >= 2

Ceil(a, b) == (a + b - 1) \div b

\* The number of status checks stays within the bound, a call with no
\* time to wait makes none, and a timeout is reported only once
\* max_wait_seconds have elapsed.
ChecksBounded ==
    /\ execution.max_wait_seconds > 0 =>
            execution.checks
                <= Ceil(execution.max_wait_seconds, execution.poll_interval)
    /\ execution.max_wait_seconds <= 0 => execution.checks = 0
    /\ ( /\ execution.max_wait_seconds <= 0
         /\ ExecutionReturned
         /\ execution.execution_id = "id" )
        => execution.result = "None" /\ execution.log = "timed_out"
    /\ execution.log = "timed_out" =>
            /\ now - execution.start_time >= execution.max_wait_seconds
            /\ execution.result = "None"

MaxHashes == 2

Monitors == {"whale", "dex"}

\* The keys of last_block_seen: a transaction hash, or None for an event
\* without the key 'transaction_hash'.
SeenKeys == NumsOf(1..MaxHashes) \cup {None}

\* The key of the USD amount that the log line of a monitor formats.
UsdKey(kind) == IF kind = "whale" THEN "value_usd" ELSE "amount_usd"

\* The events the API returns: with or without a hash, with a USD
\* amount or with a null one.
EventsOf(kind) ==
    {MkDict({<<"transaction_hash", h>>, <<UsdKey(kind), usd>>}) :
        h \in NumsOf(1..MaxHashes) \cup {Absent}, usd \in {Num(5), None}}

BatchLengths == 0..2

\* A Python list as a value.
List(items) == [tag |-> "list", val |-> items]

\* What get_whale_transfers / get_dex_swaps gives: a list of events,
\* None, or an exception.
Fetched(kind) ==
    {Return(List(batch)) :
        batch \in UNION {[1..n -> EventsOf(kind)] : n \in BatchLengths}}
        \cup {Return(None), Raise("RuntimeError")}

\* What the callback does when it is called.
CallbackOutcomes == {"returns", "RuntimeError", "SystemExit"}

IntervalSeconds == {-1, 10}

\* Exceptions that except Exception catches.
IsException(e) == e \in {"RuntimeError", "TypeError", "ValueError"}

\* self.last_block_seen[tx_hash] = True
MarkSeenNever(last_block_seen, tx_hash) == last_block_seen

MarkSeen(last_block_seen, tx_hash) == last_block_seen \cup {tx_hash}

\* f"${transfer.get('value_usd', 0):,.0f}": formatting None raises
LogLine(kind, event) ==
    IF IsNum(Get(event, UsdKey(kind), Num(0))) THEN Return(None)
    ELSE Raise("TypeError")

\* for transfer in transfers: ...  The loop over one batch, from event i
\* on; exc is the exception that cut it short.
RECURSIVE ForEach(_, _, _, _, _, _, _)
ForEach(kind, last_block_seen, called, batch, i, callback, outcome) ==
    IF i > Len(batch)
    THEN [last_block_seen |-> last_block_seen, called |-> called,
          exc |-> "none"]
    ELSE
    LET tx_hash == Get(batch[i], "transaction_hash", None)
        marked == MarkSeen(last_block_seen, tx_hash)
        invoked == [called EXCEPT ![tx_hash] = @ + 1]
    IN  IF tx_hash \in last_block_seen
        THEN ForEach(kind, last_block_seen, called, batch, i + 1,
                     callback, outcome)
        ELSE IF Raised(LogLine(kind, batch[i]))
        THEN [last_block_seen |-> marked, called |-> called,
              exc |-> LogLine(kind, batch[i]).exc]
        ELSE IF ~callback
        THEN ForEach(kind, marked, called, batch, i + 1, callback,
                     outcome)
        ELSE IF outcome # "returns"
        THEN [last_block_seen |-> marked, called |-> invoked,
              exc |-> outcome]
        ELSE ForEach(kind, marked, invoked, batch, i + 1, callback,
                     outcome)

\* time.sleep(interval_seconds): a negative length raises ValueError,
\* and Ctrl-C during the sleep raises KeyboardInterrupt.
Sleep(interval_seconds, interrupt) ==
    IF interval_seconds < 0 THEN "ValueError"
    ELSE IF interrupt THEN "KeyboardInterrupt"
    ELSE "none"

\* The try block of one iteration.
TryBody(kind, m, fetched, outcome, interrupt) ==
    IF Raised(fetched)
    THEN [last_block_seen |-> m.last_block_seen, called |-> m.called,
          exc |-> fetched.exc]
    ELSE
    LET transfers == fetched.ret
        done ==
            IF transfers.tag # "list" \/ transfers.val = <<>>
            THEN [last_block_seen |-> m.last_block_seen,
                  called |-> m.called, exc |-> "none"]
            ELSE ForEach(kind, m.last_block_seen, m.called, transfers.val, 1,
                         m.callback, outcome)
    IN  IF done.exc # "none" THEN done
        ELSE [done EXCEPT !.exc = Sleep(m.interval_seconds, interrupt)]

\* How the iteration leaves the loop: "running" when the loop goes on,
\* "break" after except KeyboardInterrupt, and otherwise the exception
\* that leaves the monitor_* call.
AfterIteration(exc, interval_seconds, interrupt) ==
    CASE exc = "none" -> "running"
      [] exc = "KeyboardInterrupt" -> "break"
      [] IsException(exc) ->
            LET slept == Sleep(interval_seconds, interrupt)
            IN  IF slept = "none" THEN "running" ELSE slept
      [] OTHER -> exc

\* A monitor after __init__, with both monitor_* calls about to enter
\* their loops.
RealtimeMonitor(callback, interval_seconds) ==
    [pc |-> "monitoring", last_block_seen |-> {},
     called |-> [k \in SeenKeys |-> 0],
     callback |-> callback, interval_seconds |-> interval_seconds,
     loop |-> [kind \in Monitors |-> "running"],
     last |-> [kind |-> "", exc |-> "none"]]

InitMonitor ==
    /\ \E callback \in BOOLEAN, interval_seconds \in IntervalSeconds :
            monitor = RealtimeMonitor(callback, interval_seconds)
    /\ execution = NoExecution
    /\ now = Epoch
    /\ CallerIdle /\ OtherIdle /\ LoaderIdle /\ DbEmpty /\ AlertsIdle
    /\ JobIdle
    /\ slack = <<>>

\* One pass of the while True loop of a monitor.  The monitor does not
\* read the clock, which is left alone.
Iteration(kind) ==
    /\ monitor.pc = "monitoring"
    /\ monitor.loop[kind] = "running"
    /\ \E fetched \in Fetched(kind), outcome \in CallbackOutcomes,
          interrupt \in BOOLEAN :
        LET body == TryBody(kind, monitor, fetched, outcome, interrupt)
        IN  monitor' =
                [monitor EXCEPT
                    !.last_block_seen = body.last_block_seen,
                    !.called = body.called,
                    !.last = [kind |-> kind, exc |-> body.exc],
                    !.loop[kind] =
                        AfterIteration(body.exc, monitor.interval_seconds,
                                       interrupt)]
    /\ UNCHANGED <<callerVars, other, now, dbVars, loaderVars, slack,
                   alertVars, job, execution>>

MonitorWhaleTransfers == Iteration("whale")

MonitorDexSwaps == Iteration("dex")

NextMonitor == MonitorWhaleTransfers \/ MonitorDexSwaps

SpecMonitor == InitMonitor /\ [][NextMonitor]_vars


\* ---------------------------------------------------------------------
\* Claims about RealtimeMonitor

\* The callback ran at most once for every transaction hash, and only
\* for hashes already marked seen.
CalledAtMostOnce ==
    \A k \in SeenKeys :
        /\ monitor.called[k] <= 1
        /\ monitor.called[k] > 0 => k \in monitor.last_block_seen

\* C26 as stated: over any sequence of polling iterations of
\* monitor_whale_transfers and monitor_dex_swaps on one monitor
\* instance the callback is invoked at most once per distinct
\* transaction_hash, and no exception raised inside an iteration other
\* than KeyboardInterrupt ends the polling loop.
C26_AsStated ==
    /\ CalledAtMostOnce
    /\ \A kind \in Monitors :
            monitor.loop[kind] \in {"running", "break", "KeyboardInterrupt"}

\* How a loop can end: by KeyboardInterrupt, by an exception that is not
\* derived from Exception, or by the ValueError of the handler's own
\* sleep when interval_seconds is negative.
LoopEndsOnlyBy ==
    \A kind \in Monitors :
        \/ monitor.loop[kind]
                \in {"running", "break", "KeyboardInterrupt", "SystemExit"}
        \/ /\ monitor.loop[kind] = "ValueError"
           /\ monitor.interval_seconds < 0

\* An exception derived from Exception raised in the try block of the
\* last iteration left the loop running, unless the sleep of the handler
\* was interrupted or rejected its argument.
CaughtExceptionKeepsLoop ==
    ( /\ monitor.last.kind \in Monitors
      /\ IsException(monitor.last.exc)
      /\ monitor.interval_seconds >= 0 )
    => monitor.loop[monitor.last.kind] \in {"running", "KeyboardInterrupt"}

\* C26, amended: the callback is invoked at most once per distinct
\* transaction_hash over any sequence of iterations of the two monitors
\* on one instance, a hash being marked seen before its callback runs;
\* an exception derived from Exception raised in the try block of an
\* iteration does not end the polling loop, which ends only by
\* KeyboardInterrupt, by an exception that is not derived from
\* Exception, or by the exception of the handler's own sleep.
C26_DedupAndCaughtExceptions ==
    /\ CalledAtMostOnce
    /\ LoopEndsOnlyBy
    /\ CaughtExceptionKeepsLoop

\* The callback has run for every hash and for the event without one,
\* which takes several iterations, the last iteration was one of the
\* swap monitor whose try block raised, and both loops are still running.
C26_Witness ==
    /\ \A k \in SeenKeys : monitor.called[k] = 1
    /\ monitor.last.kind = "dex"
    /\ IsException(monitor.last.exc)
    /\ \A kind \in Monitors : monitor.loop[kind] = "running"

====
